---- MODULE Spec2Model ----
(***************************************************************************)
(* A model of the bosch-bme680 driver: the blocking driver Bme680          *)
(* (src/src/lib.rs over src/src/i2c_helper.rs) and the deferred driver     *)
(* AsyncBme680 (src/src/async_impl.rs over src/src/async_impl/             *)
(* i2c_helper.rs), each against a BME680 register file reached over the    *)
(* bus.  One step of the model is one bus transaction or one delay of the  *)
(* driver; the device answers inside the step.                             *)
(***************************************************************************)
EXTENDS Integers, Sequences, FiniteSets, TLC

VARIABLES
    drv,                  \* "sync" (Bme680) or "async" (AsyncBme680)
    seed,                 \* ambient temperature handed to the constructor
    target_endian,        \* cfg(target_endian) of the build: "little" or "big"
    pc,                   \* the driver's position inside the running call
    op,                   \* the public operation that is running
    mode,                 \* set_mode's argument
    conf,                 \* the Configuration argument of the running call
    control_register,     \* set_mode's local CtrlMeasurment byte
    current_conf,         \* set_config's local RawConfig
    coeff_buffer,         \* get_calibration_data's local buffer
    cal_pending,          \* bring-up's local calibration_data
    idx,                  \* index of the config byte being written
    attempt,              \* measure's loop counter _i
    delay_period,         \* measure's local delay_period
    initialized,          \* the driver holds its state (State is Some / Self exists)
    calibration_data,     \* driver state: CalibrationData
    sensor_config,        \* Bme680.sensor_config (raw block)
    current_sensor_config,\* State.current_sensor_config (Configuration)
    variant,              \* driver state: Variant
    ambient_temperature,  \* I2CHelper.ambient_temperature
    dev,                  \* the device's registers
    log,                  \* the last bus transactions and delays of the running call
    dropped,              \* log no longer holds the call's first events
    result,               \* what the last finished call returned
    history,              \* what the calls so far did to the driver's outputs
    calls                 \* public calls started so far

vars == <<drv, seed, target_endian, pc, op, mode, conf, control_register, current_conf,
          coeff_buffer, cal_pending, idx, attempt, delay_period, initialized,
          calibration_data, sensor_config, current_sensor_config, variant,
          ambient_temperature, dev, log, dropped, result, history, calls>>

-----------------------------------------------------------------------------
(* Bounds of the model *)

\* public calls in one behaviour
MaxCalls == 3
\* events the per-call log keeps
MaxLog == 16

-----------------------------------------------------------------------------
(* Register map and timing constants (crate::constants) *)

ADDR_CONFIG == 113
ADDR_CONTROL_MODE == 116
ADDR_SENSOR_RESULT == 29
ADDR_GAS_WAIT_0 == 100
ADDR_RES_HEAT_0 == 90
ADDR_SOFT_RESET == 224
CMD_SOFT_RESET == 182
ADDR_CHIP_ID == 208
CHIP_ID == 97
ADDR_VARIANT_ID == 240
ADDR_REG_COEFF1 == 138
ADDR_REG_COEFF2 == 225
ADDR_REG_COEFF3 == 0
LEN_COEFF1 == 23
LEN_COEFF2 == 14
LEN_COEFF3 == 5
LEN_COEFF_ALL == 42
LEN_CONFIG == 5
DELAY_PERIOD_US == 10000
CYCLE_DURATION == 1963
TPH_SWITCHING_DURATION == 1908
GAS_MEAS_DURATION == 2385
WAKEUP_DURATION == 1000
MAX_HEATER_TEMPERATURE == 400
MAX_HEATER_WAIT_DURATION_MS == 4095

ADDRS_CONFIG == [k \in 1..LEN_CONFIG |-> ADDR_CONFIG + k - 1]

-----------------------------------------------------------------------------
(* Integer helpers *)

Pow2(n) == 2 ^ n

\* the field of `width` bits of b whose lowest bit is `lo`
Bits(b, lo, width) == (b \div Pow2(lo)) % Pow2(width)

\* b with that field replaced by the low `width` bits of val
SetBits(b, lo, width, val) ==
    b - Bits(b, lo, width) * Pow2(lo) + (val % Pow2(width)) * Pow2(lo)

\* Rust's integer division: the quotient is truncated towards zero
TruncDiv(a, b) ==
    IF (a >= 0) = (b > 0)
    THEN (IF a >= 0 THEN a ELSE -a) \div (IF b > 0 THEN b ELSE -b)
    ELSE -((IF a >= 0 THEN a ELSE -a) \div (IF b > 0 THEN b ELSE -b))

\* `as i8`, `as i16` of an unsigned value; `as u8` of an i32
AsI8(b) == IF b >= 128 THEN b - 256 ELSE b
AsI16(w) == IF w >= 32768 THEN w - 65536 ELSE w
AsU8(x) == x % 256

-----------------------------------------------------------------------------
(* config.rs: enums and their register encodings *)

Oversamplings == {"Skipped", "By1", "By2", "By4", "By8", "By16"}

OversamplingToU8(o) ==
    CASE o = "Skipped" -> 0
      [] o = "By1" -> 1
      [] o = "By2" -> 2
      [] o = "By4" -> 3
      [] o = "By8" -> 4
      [] o = "By16" -> 5

OversamplingFromU8(v) ==
    CASE v = 0 -> "Skipped"
      [] v = 1 -> "By1"
      [] v = 2 -> "By2"
      [] v = 3 -> "By4"
      [] v = 4 -> "By8"
      [] OTHER -> "By16"

\* cycles as the register encoding of the oversampling would be
cycles_as_encoded(o) == OversamplingToU8(o)

cycles(o) ==
    CASE o = "Skipped" -> 0
      [] o = "By1" -> 1
      [] o = "By2" -> 2
      [] o = "By4" -> 4
      [] o = "By8" -> 8
      [] o = "By16" -> 16

IIRFilterToU8(f) ==
    CASE f = "Coeff0" -> 0
      [] f = "Coeff1" -> 1
      [] f = "Coeff3" -> 2
      [] f = "Coeff7" -> 3
      [] f = "Coeff15" -> 4
      [] f = "Coeff31" -> 5
      [] f = "Coeff63" -> 6
      [] f = "Coeff127" -> 7

SensorModeToU8(m) == IF m = "Sleep" THEN 0 ELSE 1

\* From<u8> for SensorMode: 0 and 1 are the modes, any other value panics
SensorModeFromU8(v) ==
    CASE v = 0 -> "Sleep"
      [] v = 1 -> "Forced"
      [] OTHER -> "panic"

\* From<u8> for Variant: 0 and 1 are the variants, any other value panics
VariantFromU8(v) ==
    CASE v = 0 -> "GasLow"
      [] v = 1 -> "GasHigh"
      [] OTHER -> "panic"

\* Variant::calc_gas_resistance, the arm Self::GasHigh: var1 is 262144 >> gas_range
\* and var2 is (adc_gas - 512) * 3 + 4096; the quotient 1000000. * var1 / var2 is
\* kept in whole ohms, rounded down
calc_gas_resistance_GasHigh(adc_gas, gas_range) ==
    LET var1 == 262144 \div (2 ^ gas_range)
        var2 == (adc_gas - 512) * 3 + 4096
    IN  (1000000 \div var2) * var1 + ((1000000 % var2) * var1) \div var2

NoGasConfig == [present |-> FALSE, heater_duration |-> 0, heater_target_temperature |-> 0]

GasConfigDefault ==
    [present |-> TRUE, heater_duration |-> 150, heater_target_temperature |-> 300]

ConfigurationDefault ==
    [temperature_oversampling |-> "By2",
     pressure_oversampling |-> "By16",
     humidity_oversampling |-> "By1",
     filter |-> "Coeff1",
     gas_config |-> GasConfigDefault]

AllNoneConfiguration ==
    [temperature_oversampling |-> "None",
     pressure_oversampling |-> "None",
     humidity_oversampling |-> "None",
     filter |-> "None",
     gas_config |-> NoGasConfig]

\* GasConfig::calc_gas_wait
RECURSIVE GasWaitLoop(_, _)
GasWaitLoop(duration, factor) ==
    IF duration > 63
    THEN GasWaitLoop(duration \div 4, factor + 1)
    ELSE AsU8(duration) + factor * 64

\* calc_gas_wait with a factor that starts at one would be
calc_gas_wait_from_one(gas_config) ==
    LET duration == gas_config.heater_duration % 65536
    IN  IF duration >= MAX_HEATER_WAIT_DURATION_MS
        THEN 255
        ELSE GasWaitLoop(duration, 1)

calc_gas_wait(gas_config) ==
    LET duration == gas_config.heater_duration % 65536
    IN  IF duration >= MAX_HEATER_WAIT_DURATION_MS
        THEN 255
        ELSE GasWaitLoop(duration, 0)

\* GasConfig::calc_res_heat
calc_res_heat(gas_config, cal, ambient) ==
    LET target_temperature ==
            IF gas_config.heater_target_temperature > MAX_HEATER_TEMPERATURE
            THEN 400
            ELSE gas_config.heater_target_temperature
        var1 == TruncDiv(ambient * cal.par_gh3, 1000) * 256
        var2 == (cal.par_gh1 + 784)
                * TruncDiv(TruncDiv((cal.par_gh2 + 154009) * target_temperature * 5, 100)
                           + 3276800, 10)
        var3 == var1 + TruncDiv(var2, 2)
        var4 == TruncDiv(var3, cal.res_heat_range + 4)
        var5 == (131 * cal.res_heat_val) + 65536
        heatr_res_x100 == (TruncDiv(var4, var5) - 250) * 34
    IN  AsU8(TruncDiv(heatr_res_x100 + 50, 100))

-----------------------------------------------------------------------------
(* bitfields.rs: byte-level views *)

\* RawConfig: a block of LEN_CONFIG bytes; byte k of the block is raw[k + 1]
RawByte(raw, k) == raw[k + 1]
RawWith(raw, k, b) == [raw EXCEPT ![k + 1] = b]

RawConfig_filter(raw) == Bits(RawByte(raw, 4), 2, 3)
RawConfig_mode(raw) == Bits(RawByte(raw, 3), 0, 2)
RawConfig_pressure_oversampling(raw) == OversamplingFromU8(Bits(RawByte(raw, 3), 2, 3))
RawConfig_temperature_oversampling(raw) == OversamplingFromU8(Bits(RawByte(raw, 3), 5, 3))
RawConfig_humidity_oversampling(raw) == OversamplingFromU8(Bits(RawByte(raw, 1), 0, 3))
RawConfig_heater_profile(raw) == Bits(RawByte(raw, 0), 0, 4)
RawConfig_run_gas(raw) == Bits(RawByte(raw, 0), 4, 1)

set_temperature_oversampling(raw, o) ==
    RawWith(raw, 3, SetBits(RawByte(raw, 3), 5, 3, OversamplingToU8(o)))
\* set_pressure_oversampling as a setter of the lowest three bits would be
set_pressure_oversampling_low(raw, o) ==
    RawWith(raw, 3, SetBits(RawByte(raw, 3), 0, 3, OversamplingToU8(o)))

set_pressure_oversampling(raw, o) ==
    RawWith(raw, 3, SetBits(RawByte(raw, 3), 2, 3, OversamplingToU8(o)))
set_humidity_oversampling(raw, o) ==
    RawWith(raw, 1, SetBits(RawByte(raw, 1), 0, 3, OversamplingToU8(o)))
\* set_filter as a setter one bit too wide would be
set_filter_wide(raw, f) ==
    RawWith(raw, 4, SetBits(RawByte(raw, 4), 2, 4, IIRFilterToU8(f)))

set_filter(raw, f) ==
    RawWith(raw, 4, SetBits(RawByte(raw, 4), 2, 3, IIRFilterToU8(f)))
set_run_gas(raw, on) ==
    RawWith(raw, 0, SetBits(RawByte(raw, 0), 4, 1, IF on THEN 1 ELSE 0))
\* set_heater_profile as a setter of the low three bits only would be
set_heater_profile_narrow(raw, p) ==
    RawWith(raw, 0, SetBits(RawByte(raw, 0), 0, 3, p))

set_heater_profile(raw, p) ==
    RawWith(raw, 0, SetBits(RawByte(raw, 0), 0, 4, p))

\* RawConfig::apply_config
apply_config(raw, config) ==
    LET r1 == IF config.temperature_oversampling # "None"
              THEN set_temperature_oversampling(raw, config.temperature_oversampling)
              ELSE raw
        r2 == IF config.pressure_oversampling # "None"
              THEN set_pressure_oversampling(r1, config.pressure_oversampling)
              ELSE r1
        r3 == IF config.humidity_oversampling # "None"
              THEN set_humidity_oversampling(r2, config.humidity_oversampling)
              ELSE r2
        r4 == IF config.filter # "None" THEN set_filter(r3, config.filter) ELSE r3
    IN  IF config.gas_config.present
        THEN set_heater_profile(set_run_gas(r4, TRUE), 0)
        ELSE r4

\* CtrlMeasurment: the control register byte
CtrlMeasurment_mode(b) == SensorModeFromU8(Bits(b, 0, 2))

\* set_mode as a setter of the wrong width, or of the whole byte, would be
CtrlMeasurment_set_mode_wide(b, m) == SetBits(b, 0, 3, SensorModeToU8(m))
CtrlMeasurment_set_mode_whole(b, m) == SensorModeToU8(m)

CtrlMeasurment_set_mode(b, m) == SetBits(b, 0, 2, SensorModeToU8(m))

\* RawData: the 15-byte result frame; byte k of the frame is frame[k + 1]
RawData_new_data(frame) == Bits(frame[1], 7, 1) = 1
RawData_gas_measuring(frame) == Bits(frame[1], 6, 1) = 1
RawData_measuring(frame) == Bits(frame[1], 5, 1) = 1
RawData_gas_meas_index(frame) == Bits(frame[1], 0, 4)
RawData_gas_valid(frame) == Bits(frame[15], 5, 1) = 1
RawData_heater_sable(frame) == Bits(frame[15], 4, 1) = 1
RawData_gas_range(frame) == Bits(frame[15], 0, 4)

\* An unsigned integer of w bytes is kept as its w bytes, least significant
\* first, so that a u32 with its top bit set stays representable.
\* The getter of a field over the whole bytes first..last of the frame: bit k of
\* the value is bit k of the field, so byte first is the least significant.
BitRangeBytes(frame, first, last, w) ==
    [k \in 1..w |-> IF first + k - 1 <= last THEN frame[first + k] ELSE 0]

Reverse(word) == [k \in 1..Len(word) |-> word[Len(word) + 1 - k]]

\* u32::from_be, u16::from_be: the bytes are swapped on a little-endian target
\* and left as they are on a big-endian one
from_be(word, t) == IF t = "little" THEN Reverse(word) ELSE word

\* Measurment::from: u32::from_be(value) >> 12
Measurment(word, t) ==
    LET swapped == from_be(word, t)
    IN  swapped[2] \div 16 + swapped[3] * 16 + swapped[4] * 4096

\* Humidity::from: u16::from_be(value)
Humidity(word, t) ==
    LET swapped == from_be(word, t)
    IN  swapped[1] + swapped[2] * 256

\* GasADC::from: value.to_le_bytes() is [gas_r_msb, gas_r_lsb] on every target
GasADC(word) == word[1] * 4 + word[2] \div 64

RawData_temperature_adc(frame, t) == Measurment(BitRangeBytes(frame, 5, 7, 4), t)
RawData_pressure_adc(frame, t) == Measurment(BitRangeBytes(frame, 2, 4, 4), t)
RawData_humidity_adc(frame, t) == Humidity(BitRangeBytes(frame, 8, 9, 2), t)
RawData_gas_adc(frame) == GasADC(BitRangeBytes(frame, 13, 14, 2))

-----------------------------------------------------------------------------
(* i2c_helper.rs: extract_calibration_data (the coefficients the driver's     *)
(* integer paths read); coefficient byte k is buf[k + 1]                      *)

\* the extraction without the mask of res_heat_range would be
extract_calibration_data_unmasked(buf) ==
    [par_t1 |-> buf[33] * 256 + buf[32],
     par_t2 |-> AsI16(buf[2] * 256 + buf[1]),
     par_t3 |-> AsI8(buf[3]),
     par_h1 |-> buf[26] * 16 + (buf[25] % 16),
     par_h2 |-> buf[24] * 16 + (buf[25] \div 16),
     par_h3 |-> AsI8(buf[27]),
     par_h4 |-> AsI8(buf[28]),
     par_h5 |-> AsI8(buf[29]),
     par_h6 |-> buf[30],
     par_h7 |-> AsI8(buf[31]),
     par_gh1 |-> AsI8(buf[36]),
     par_gh2 |-> AsI16(buf[35] * 256 + buf[34]),
     par_gh3 |-> AsI8(buf[37]),
     res_heat_range |-> buf[40] \div 16,
     res_heat_val |-> AsI8(buf[38]),
     range_sw_err |-> TruncDiv(AsI8(buf[42] - (buf[42] % 16)), 16)]

extract_calibration_data(buf) ==
    [par_t1 |-> buf[33] * 256 + buf[32],
     par_t2 |-> AsI16(buf[2] * 256 + buf[1]),
     par_t3 |-> AsI8(buf[3]),
     par_h1 |-> buf[26] * 16 + (buf[25] % 16),
     par_h2 |-> buf[24] * 16 + (buf[25] \div 16),
     par_h3 |-> AsI8(buf[27]),
     par_h4 |-> AsI8(buf[28]),
     par_h5 |-> AsI8(buf[29]),
     par_h6 |-> buf[30],
     par_h7 |-> AsI8(buf[31]),
     par_gh1 |-> AsI8(buf[36]),
     par_gh2 |-> AsI16(buf[35] * 256 + buf[34]),
     par_gh3 |-> AsI8(buf[37]),
     res_heat_range |-> Bits(buf[40], 4, 2),
     res_heat_val |-> AsI8(buf[38]),
     range_sw_err |-> TruncDiv(AsI8(buf[42] - (buf[42] % 16)), 16)]

-----------------------------------------------------------------------------
(* data.rs: the temperature conversion.  The f32 arithmetic is carried out  *)
(* on integers: t_fine is kept as the floor of its real value, and the      *)
(* temperature as t_fine, that is in units of 1/5120 degree.                *)

\* floor(d * m / 16384) without leaving 32 bits
MulDiv16384(d, m) == (d \div 16384) * m + ((d % 16384) * m) \div 16384

\* floor(d * d / 2^20) without leaving 32 bits
SquareDiv2p20(d) ==
    LET e == d \div 1024
        r == d % 1024
    IN  e * e + (2 * e * r + (r * r) \div 1024) \div 1024

calculate_temperature(adc_temp, cal) ==
    LET d == adc_temp - 16 * cal.par_t1
        var_1 == MulDiv16384(d, cal.par_t2)
        var_2 == (SquareDiv2p20(d) * cal.par_t3) \div 1024
    IN  var_1 + var_2

\* `temperature as i32`: temperature = t_fine / 5120, truncated towards zero
TemperatureAsI32(t_fine) == TruncDiv(t_fine, 5120)

-----------------------------------------------------------------------------
(* data.rs: the humidity conversion.  The f32 arithmetic is carried out on   *)
(* integers in fixed point, each intermediate value rounded down: the        *)
(* compensation temperature in units of 1/128 degree, var1 in 1/16, the      *)
(* humidity in 1/4096 percent.                                               *)

\* floor(a * m / 2^k) without leaving 32 bits, for m * 2^k below 2^31
MulShift(a, m, k) == (a \div (2 ^ k)) * m + ((a % (2 ^ k)) * m) \div (2 ^ k)

\* 100 percent, in units of 1/4096 percent
HUMIDITY_MAX == 100 * 4096

\* f32::clamp(0., 100.)
clamp(x, lo, hi) == IF x < lo THEN lo ELSE IF x > hi THEN hi ELSE x

\* calculate_humidity without its clamp would be
calculate_humidity_unclamped(adc_hum, cal, t_fine) ==
    LET temp_comp == t_fine \div 40
        var1 == 16 * adc_hum - 256 * cal.par_h1 - (cal.par_h3 * temp_comp) \div 16
        poly == 16384 + (cal.par_h4 * temp_comp) \div 128
                + (cal.par_h5 * (((temp_comp \div 4) * (temp_comp \div 4)) \div 64)) \div 1024
        var2 == MulShift(MulShift(var1, cal.par_h2, 12), poly, 12)
        var34 == 128 * cal.par_h6 + (cal.par_h7 * temp_comp) \div 128
    IN  var2 + MulShift(MulShift(var2, var34, 14), var2 \div 64, 13)

calculate_humidity(adc_hum, cal, t_fine) ==
    LET temp_comp == t_fine \div 40
        var1 == 16 * adc_hum - 256 * cal.par_h1 - (cal.par_h3 * temp_comp) \div 16
        poly == 16384 + (cal.par_h4 * temp_comp) \div 128
                + (cal.par_h5 * (((temp_comp \div 4) * (temp_comp \div 4)) \div 64)) \div 1024
        var2 == MulShift(MulShift(var1, cal.par_h2, 12), poly, 12)
        var34 == 128 * cal.par_h6 + (cal.par_h7 * temp_comp) \div 128
        calc_hum == var2 + MulShift(MulShift(var2, var34, 14), var2 \div 64, 13)
    IN  clamp(calc_hum, 0, HUMIDITY_MAX)

-----------------------------------------------------------------------------
(* lib.rs, async_impl.rs: the measurement delay and the readiness tests *)

\* Bme680::calculate_delay_period_us, from the stored raw block
calculate_delay_period_us(raw) ==
    (cycles(RawConfig_temperature_oversampling(raw))
     + cycles(RawConfig_humidity_oversampling(raw))
     + cycles(RawConfig_pressure_oversampling(raw))) * CYCLE_DURATION
    + TPH_SWITCHING_DURATION + GAS_MEAS_DURATION + WAKEUP_DURATION

OptionCycles(o) == IF o = "None" THEN 0 ELSE cycles(o)

\* Configuration::calculate_delay_period_us, from the stored Configuration
Configuration_calculate_delay_period_us(c) ==
    (OptionCycles(c.temperature_oversampling)
     + OptionCycles(c.humidity_oversampling)
     + OptionCycles(c.pressure_oversampling)) * CYCLE_DURATION
    + TPH_SWITCHING_DURATION + GAS_MEAS_DURATION + WAKEUP_DURATION

\* Bme680::measure: the frame is decoded when this holds
SyncFrameReady(frame) == ~RawData_measuring(frame) /\ RawData_new_data(frame)

\* MeasurmentData::from_raw returns None when this holds
FromRawBails(frame) == RawData_measuring(frame) /\ ~RawData_new_data(frame)

\* Bme680::measure: the first wait, and the wait after a frame that is not ready
SyncFirstDelay(period) == period \div 1000
SyncRetryDelay(period) == period
\* AsyncBme680::measure: the same two waits
AsyncFirstDelay(period) == period
AsyncRetryDelay(period) == period

\* the polling loop over the inclusive range 0..=5
MeasureAttempts_inclusive == 5 + 1

\* attempts of measure's polling loop (for _i in 0..5)
MeasureAttempts == 5

\* calculate_pressure, kept as the call it is: the ADC value and the t_fine it
\* is handed; its f32 polynomial is not evaluated
calculate_pressure(adc_press, cal, t_fine) == [adc_press |-> adc_press, t_fine |-> t_fine]

\* the MeasurmentData built from a frame: Bme680::measure always reports a gas
\* resistance, from_raw only for a valid and finished gas conversion.  The
\* temperature field holds t_fine, of which the temperature is the 5120th part.
SyncMeasurmentData(frame, cal) ==
    LET t_fine == calculate_temperature(RawData_temperature_adc(frame, target_endian), cal)
    IN  [temperature |-> t_fine,
         pressure |-> calculate_pressure(RawData_pressure_adc(frame, target_endian),
                                         cal, t_fine),
         humidity |-> calculate_humidity(RawData_humidity_adc(frame, target_endian),
                                         cal, t_fine),
         gas_resistance |-> TRUE,
         frame |-> frame]

\* from_raw with a t_fine of its own for the humidity, taken from the pressure
\* bytes of the frame, would be
from_raw_own_t_fine(frame, cal) ==
    LET t_fine == calculate_temperature(RawData_temperature_adc(frame, target_endian), cal)
        other == calculate_temperature(RawData_pressure_adc(frame, target_endian), cal)
    IN  [temperature |-> t_fine,
         pressure |-> calculate_pressure(RawData_pressure_adc(frame, target_endian),
                                         cal, t_fine),
         humidity |-> calculate_humidity(RawData_humidity_adc(frame, target_endian),
                                         cal, other),
         gas_resistance |-> RawData_gas_valid(frame) /\ ~RawData_gas_measuring(frame),
         frame |-> frame]

from_raw(frame, cal) ==
    LET t_fine == calculate_temperature(RawData_temperature_adc(frame, target_endian), cal)
    IN  [temperature |-> t_fine,
         pressure |-> calculate_pressure(RawData_pressure_adc(frame, target_endian),
                                         cal, t_fine),
         humidity |-> calculate_humidity(RawData_humidity_adc(frame, target_endian),
                                         cal, t_fine),
         gas_resistance |-> RawData_gas_valid(frame) /\ ~RawData_gas_measuring(frame),
         frame |-> frame]

-----------------------------------------------------------------------------
(* The device: its register file as the bus shows it *)

\* coefficient memory of the device (the bytes of library_tests::CALIBRATION_DATA);
\* the device keeps it in coeff, and no write reaches it
CALIBRATION_DATA ==
    <<179, 193, 176, 188, 21, 51, 11, 29, 222, 179, 184, 1, 230, 47, 209, 22, 154, 34,
      237, 70, 148, 134, 44, 13, 204, 61, 206, 69, 18, 43, 124, 164, 92, 132, 19, 63,
      29, 28, 201, 140, 70, 24>>

ResetConfig == [k \in 1..LEN_CONFIG |-> 0]

ResetDevice ==
    [config |-> ResetConfig, gas_wait |-> 0, res_heat |-> 0, coeff |-> CALIBRATION_DATA]

\* a device an earlier user configured and left converting in forced mode
UsedDevice ==
    [config |-> <<0, 1, 0, 173, 4>>, gas_wait |-> 0, res_heat |-> 0,
     coeff |-> CALIBRATION_DATA]

\* a BME688 an earlier user left in parallel mode, mode bits 0b10
ParallelDevice ==
    [config |-> <<0, 1, 0, 174, 4>>, gas_wait |-> 0, res_heat |-> 0,
     coeff |-> CALIBRATION_DATA]

DeviceMode(d) == Bits(RawByte(d.config, 3), 0, 2)

DeviceWithMode(d, m) ==
    [d EXCEPT !.config = RawWith(d.config, 3, SetBits(RawByte(d.config, 3), 0, 2, m))]

\* The modes a read may see: a forced conversion may have finished since the
\* last access, and the device is then back in sleep mode.
ObservableModes(d) == IF DeviceMode(d) = 1 THEN {0, 1} ELSE {DeviceMode(d)}

\* The device after the write of value to the register at addr.  A sleep command
\* to a device that is converting takes effect once the conversion has finished:
\* the device stays in forced mode until a read observes the conversion's end.
DeviceAfterWrite(d, addr, value) ==
    IF addr = ADDR_SOFT_RESET
    THEN (IF value = CMD_SOFT_RESET THEN {[ResetDevice EXCEPT !.coeff = d.coeff]} ELSE {d})
    ELSE IF addr = ADDR_GAS_WAIT_0 THEN {[d EXCEPT !.gas_wait = value]}
    ELSE IF addr = ADDR_RES_HEAT_0 THEN {[d EXCEPT !.res_heat = value]}
    ELSE IF addr = ADDR_CONTROL_MODE
    THEN LET written == [d EXCEPT !.config = RawWith(d.config, 3, value)]
         IN  IF Bits(value, 0, 2) = 0 /\ DeviceMode(d) = 1
             THEN {DeviceWithMode(written, 1)}
             ELSE {written}
    ELSE IF addr \in ADDR_CONFIG..(ADDR_CONFIG + LEN_CONFIG - 1)
    THEN {[d EXCEPT !.config = RawWith(d.config, addr - ADDR_CONFIG, value)]}
    ELSE {d}

\* bytes the chip-ID and variant-ID registers may return
ChipIdBytes == {CHIP_ID, 96}
VariantBytes == {0, 1, 2}

\* result frames the device may return: the status byte, the temperature bytes
\* and the gas byte vary, the rest are those of bitfields.rs test_raw_data
MakeFrame(status, t_msb, gas_lsb) ==
    <<status, 0, 41, 179, 240, t_msb, 176, 224, 179, 41, 0, 0, 0, 129, gas_lsb>>

Frames ==
    {MakeFrame(128, 117, 243), MakeFrame(128, 0, 211), MakeFrame(192, 117, 243),
     MakeFrame(0, 117, 243), MakeFrame(32, 117, 243)}

\* Configurations the caller passes: the default, one without gas config, and
\* one that holds a gas config only, whose res_heat depends on the ambient
\* temperatures that the frames below yield
Configurations ==
    {ConfigurationDefault,
     [temperature_oversampling |-> "By16",
      pressure_oversampling |-> "By4",
      humidity_oversampling |-> "None",
      filter |-> "Coeff3",
      gas_config |-> NoGasConfig],
     [AllNoneConfiguration EXCEPT
         !.gas_config = [present |-> TRUE, heater_duration |-> 100,
                         heater_target_temperature |-> 373]]}

Seeds == {20}

-----------------------------------------------------------------------------
(* The call log and the results *)

Event(t, a, v) == [t |-> t, a |-> a, v |-> v]

Logged(e) ==
    /\ log' = IF Len(log) < MaxLog THEN Append(log, e) ELSE Append(Tail(log), e)
    /\ dropped' = (dropped \/ Len(log) >= MaxLog)

NoData ==
    [temperature |-> 0, pressure |-> [adc_press |-> 0, t_fine |-> 0], humidity |-> 0,
     gas_resistance |-> FALSE, frame |-> <<>>]

Res(kind) == [kind |-> kind, chip_id |-> 0, data |-> NoData]

locals == <<mode, conf, control_register, current_conf, coeff_buffer, cal_pending,
            idx, attempt, delay_period>>
driver == <<initialized, calibration_data, sensor_config, current_sensor_config,
            variant, ambient_temperature>>
fixed == <<drv, seed, target_endian>>

\* the running call returns r
Return(r) ==
    /\ pc' = "idle"
    /\ result' = r

\* a failed transaction that is tried again
BusFails_retried(t, addr, v, kind) ==
    /\ Logged(Event(t, addr, v))
    /\ UNCHANGED <<pc, result, fixed, op, locals, driver, dev, history, calls>>

\* a call that has stored its configuration before the transaction that fails
BusFails_stored(t, addr, v, kind) ==
    /\ Logged(Event(t, addr, v))
    /\ Return(Res(kind))
    /\ sensor_config' = IF drv = "sync" THEN current_conf ELSE sensor_config
    /\ current_sensor_config' = IF drv = "async" THEN conf ELSE current_sensor_config
    /\ UNCHANGED <<initialized, calibration_data, variant, ambient_temperature>>
    /\ UNCHANGED <<fixed, op, locals, dev, history, calls>>

\* a transaction the bus fails: the call returns the transport error
BusFails(t, addr, v, kind) ==
    /\ Logged(Event(t, addr, v))
    /\ Return(Res(kind))
    /\ UNCHANGED <<fixed, op, locals, driver, dev, history, calls>>

\* what the driver instance has done so far: the Ok results of measure, and the
\* reads of the calibration ranges, the variant register and the result frame
NoHistory ==
    [ok_measures |-> 0, last_data |-> NoData,
     coeff1_reads |-> 0, coeff2_reads |-> 0, coeff3_reads |-> 0, variant_reads |-> 0,
     frame_read |-> FALSE, late_read |-> FALSE]

\* one more read of a calibration range or of the variant register
Reading(h, what) == [h EXCEPT ![what] = @ + 1, !.late_read = @ \/ h.frame_read]

NoCalibration == extract_calibration_data([k \in 1..LEN_COEFF_ALL |-> 0])

\* The driver runs on a little-endian build, the one the repository's tests
\* pass on; RawData is taken through both byte orders in DecodeSpec.
Init ==
    /\ drv \in {"sync", "async"}
    /\ seed \in Seeds
    /\ target_endian = "little"
    /\ pc = "idle"
    /\ op = "none"
    /\ mode = "Sleep"
    /\ conf = AllNoneConfiguration
    /\ control_register = 0
    /\ current_conf = ResetConfig
    /\ coeff_buffer = [k \in 1..LEN_COEFF_ALL |-> 0]
    /\ cal_pending = NoCalibration
    /\ idx = 0
    /\ attempt = 0
    /\ delay_period = 0
    /\ initialized = FALSE
    /\ calibration_data = NoCalibration
    /\ sensor_config = ResetConfig
    /\ current_sensor_config = AllNoneConfiguration
    /\ variant = "GasLow"
    /\ ambient_temperature = seed
    /\ dev \in {ResetDevice, UsedDevice, ParallelDevice}
    /\ log = <<>>
    /\ dropped = FALSE
    /\ result = Res("none")
    /\ history = NoHistory
    /\ calls = 0

-----------------------------------------------------------------------------
(* Public calls.  A call starts from "idle" with an empty log. *)

StartCall(o, m, c, first) ==
    /\ pc = "idle"
    /\ calls < MaxCalls
    /\ calls' = calls + 1
    /\ op' = o
    /\ mode' = m
    /\ conf' = c
    /\ log' = <<>>
    /\ dropped' = FALSE
    /\ pc' = first
    /\ result' = Res("running")
    /\ UNCHANGED <<fixed, control_register, current_conf, coeff_buffer, cal_pending,
                   idx, attempt, delay_period, driver, dev, history>>

\* a call that fails before any bus transaction, with BmeError::Uninitialized
RejectCall(o) ==
    /\ pc = "idle"
    /\ calls < MaxCalls
    /\ calls' = calls + 1
    /\ op' = o
    /\ log' = <<>>
    /\ dropped' = FALSE
    /\ Return(Res("Uninitialized"))
    /\ UNCHANGED <<fixed, locals, driver, dev, history>>

\* Bme680::new: there is no driver before it succeeds
New ==
    /\ drv = "sync"
    /\ ~initialized
    /\ \E c \in Configurations : StartCall("new", "Sleep", c, "soft_reset")

\* AsyncBme680::initialize
Initialize ==
    /\ drv = "async"
    /\ \E c \in Configurations : StartCall("initialize", "Sleep", c, "soft_reset")

\* Bme680::get_chip_variant
GetChipVariant ==
    /\ drv = "sync"
    /\ initialized
    /\ StartCall("get_chip_variant", mode, conf, "get_variant")

\* AsyncBme680::get_calibration_data: no bus transaction
GetCalibrationData ==
    /\ drv = "async"
    /\ pc = "idle"
    /\ calls < MaxCalls
    /\ calls' = calls + 1
    /\ op' = "get_calibration_data"
    /\ log' = <<>>
    /\ dropped' = FALSE
    /\ Return(Res(IF initialized THEN "Ok" ELSE "Uninitialized"))
    /\ UNCHANGED <<fixed, locals, driver, dev, history>>

\* Bme680::wake_up
WakeUp ==
    /\ drv = "sync"
    /\ initialized
    /\ StartCall("wake_up", "Forced", conf, "get_ctrl")

\* Bme680::put_to_sleep, AsyncBme680::put_to_sleep (which reads no driver state)
PutToSleep ==
    /\ drv = "sync" => initialized
    /\ StartCall("put_to_sleep", "Sleep", conf, "get_ctrl")

\* Bme680::set_configuration, AsyncBme680::set_configuration
SetConfiguration ==
    /\ initialized
    /\ \E c \in Configurations : StartCall("set_configuration", "Sleep", c, "get_ctrl")

SetConfigurationUninitialized ==
    /\ drv = "async"
    /\ ~initialized
    /\ RejectCall("set_configuration")

\* Bme680::measure, AsyncBme680::measure
Measure ==
    /\ initialized
    /\ StartCall("measure", "Forced", conf, "get_ctrl")

MeasureUninitialized ==
    /\ drv = "async"
    /\ ~initialized
    /\ RejectCall("measure")

-----------------------------------------------------------------------------
(* I2CHelper::set_mode *)

\* what follows set_mode's Ok in each caller
AfterSetMode ==
    CASE op = "set_configuration" -> "get_config"
      [] op = "measure" -> "measure_delay"
      [] OTHER -> "idle"

\* set_mode without the loop's Forced arm: the target is written at once
SetModeStep_direct(value, target) ==
    IF CtrlMeasurment_mode(value) = "panic" THEN "panic"
    ELSE IF target = "Forced" THEN "set_forced"
    ELSE IF CtrlMeasurment_mode(value) = "Forced" THEN "set_sleep"
    ELSE AfterSetMode

\* set_mode after a read of the control register: the Forced arm of the loop
\* writes Sleep; out of the loop, Forced is written if it is the target.
\* control_register.mode() panics on the mode bits 0b10 and 0b11.
SetModeStep(value, target) ==
    IF CtrlMeasurment_mode(value) = "panic" THEN "panic"
    ELSE IF CtrlMeasurment_mode(value) = "Forced" THEN "set_sleep"
    ELSE IF target = "Forced" THEN "set_forced"
    ELSE AfterSetMode

\* the Forced arm leaving the loop after its delay, without the read
AfterSleepDelay_leave == IF mode = "Forced" THEN "set_forced" ELSE AfterSetMode

\* the end of the Forced arm: round the loop, to the read
AfterSleepDelay == "get_ctrl"

\* the loop's read of the control register
GetCtrl ==
    /\ pc = "get_ctrl"
    /\ \/ \E m \in ObservableModes(dev) :
            LET value == RawByte(DeviceWithMode(dev, m).config, 3)
                next == SetModeStep(value, mode)
            IN  /\ dev' = DeviceWithMode(dev, m)
                /\ control_register' = value
                /\ Logged(Event("R", ADDR_CONTROL_MODE, <<value>>))
                /\ pc' = IF next = "panic" THEN "idle" ELSE next
                /\ result' = IF next = "panic" THEN Res("panic")
                              ELSE IF next = "idle" THEN Res("Ok") ELSE result
                /\ UNCHANGED <<fixed, op, mode, conf, current_conf, coeff_buffer,
                               cal_pending, idx, attempt, delay_period, driver,
                               history, calls>>
       \/ BusFails("RX", ADDR_CONTROL_MODE, <<>>, "WriteReadError")

\* SensorMode::Forced arm: write the control register with the mode bits at Sleep
SetSleep ==
    /\ pc = "set_sleep"
    /\ LET value == CtrlMeasurment_set_mode(control_register, "Sleep")
       IN  \/ /\ dev' \in DeviceAfterWrite(dev, ADDR_CONTROL_MODE, value)
              /\ control_register' = value
              /\ Logged(Event("W", ADDR_CONTROL_MODE, <<value>>))
              /\ pc' = "sleep_delay"
              /\ UNCHANGED <<fixed, op, mode, conf, current_conf, coeff_buffer,
                             cal_pending, idx, attempt, delay_period, driver,
                             result, history, calls>>
           \/ BusFails("WX", ADDR_CONTROL_MODE, <<value>>, "WriteError")

\* the settle delay after the Sleep write, then round the loop again
SleepDelay ==
    /\ pc = "sleep_delay"
    /\ Logged(Event("D", 0, <<DELAY_PERIOD_US>>))
    /\ pc' = AfterSleepDelay
    /\ UNCHANGED <<fixed, op, locals, driver, dev, result, history, calls>>

\* after the loop, for mode = Forced: write the mode bits at Forced
SetForced ==
    /\ pc = "set_forced"
    /\ LET value == CtrlMeasurment_set_mode(control_register, "Forced")
       IN  \/ /\ dev' \in DeviceAfterWrite(dev, ADDR_CONTROL_MODE, value)
              /\ control_register' = value
              /\ Logged(Event("W", ADDR_CONTROL_MODE, <<value>>))
              /\ pc' = AfterSetMode
              /\ result' = IF AfterSetMode = "idle" THEN Res("Ok") ELSE result
              /\ UNCHANGED <<fixed, op, mode, conf, current_conf, coeff_buffer,
                             cal_pending, idx, attempt, delay_period, driver,
                             history, calls>>
           \/ BusFails("WX", ADDR_CONTROL_MODE, <<value>>, "WriteError")

-----------------------------------------------------------------------------
(* I2CHelper::init, get_calibration_data, get_variant_id *)

soft_reset ==
    /\ pc = "soft_reset"
    /\ \/ /\ dev' \in DeviceAfterWrite(dev, ADDR_SOFT_RESET, CMD_SOFT_RESET)
          /\ Logged(Event("W", ADDR_SOFT_RESET, <<CMD_SOFT_RESET>>))
          /\ pc' = "init_delay"
          /\ UNCHANGED <<fixed, op, locals, driver, result, history, calls>>
       \/ BusFails("WX", ADDR_SOFT_RESET, <<CMD_SOFT_RESET>>, "WriteError")

InitDelay ==
    /\ pc = "init_delay"
    /\ Logged(Event("D", 0, <<DELAY_PERIOD_US>>))
    /\ pc' = "get_chip_id"
    /\ UNCHANGED <<fixed, op, locals, driver, dev, result, history, calls>>

\* init without the comparison of the chip id
get_chip_id_unchecked ==
    /\ pc = "get_chip_id"
    /\ \/ \E chip_id \in ChipIdBytes :
            /\ Logged(Event("R", ADDR_CHIP_ID, <<chip_id>>))
            /\ pc' = "coeff1"
            /\ UNCHANGED <<fixed, op, locals, driver, dev, result, history, calls>>
       \/ BusFails("RX", ADDR_CHIP_ID, <<>>, "WriteReadError")

get_chip_id ==
    /\ pc = "get_chip_id"
    /\ \/ \E chip_id \in ChipIdBytes :
            /\ Logged(Event("R", ADDR_CHIP_ID, <<chip_id>>))
            /\ IF chip_id = CHIP_ID
               THEN pc' = "coeff1" /\ result' = result
               ELSE Return([Res("UnexpectedChipId") EXCEPT !.chip_id = chip_id])
            /\ UNCHANGED <<fixed, op, locals, driver, dev, history, calls>>
       \/ BusFails("RX", ADDR_CHIP_ID, <<>>, "WriteReadError")

\* one of the three reads of get_calibration_data: len bytes at addr into the
\* buffer from offset from; the last one hands the buffer to the extraction
GetCoefficients(here, addr, from, len, next) ==
    /\ pc = here
    /\ \/ LET bytes == [k \in 1..len |-> dev.coeff[from + k]]
              buffer == [k \in 1..LEN_COEFF_ALL |->
                            IF k > from /\ k <= from + len
                            THEN bytes[k - from] ELSE coeff_buffer[k]]
          IN  /\ Logged(Event("R", addr, bytes))
              /\ coeff_buffer' = buffer
              /\ cal_pending' = IF next = "get_config"
                                THEN extract_calibration_data(buffer)
                                ELSE cal_pending
              /\ pc' = next
              /\ history' = Reading(history, here \o "_reads")
              /\ UNCHANGED <<fixed, op, mode, conf, control_register, current_conf,
                             idx, attempt, delay_period, driver, dev, result, calls>>
       \/ BusFails("RX", addr, <<>>, "WriteReadError")

GetCoeff1 == GetCoefficients("coeff1", ADDR_REG_COEFF1, 0, LEN_COEFF1, "coeff2")
GetCoeff2 == GetCoefficients("coeff2", ADDR_REG_COEFF2, LEN_COEFF1, LEN_COEFF2, "coeff3")
\* the third read at the address of the second
GetCoeff3_second_range ==
    GetCoefficients("coeff3", ADDR_REG_COEFF2, LEN_COEFF1 + LEN_COEFF2,
                    LEN_COEFF_ALL - LEN_COEFF1 - LEN_COEFF2, "get_config")

\* bring-up that reads the variant before it applies the configuration, and
\* returns at the variant
GetCoeff3_then_variant ==
    GetCoefficients("coeff3", ADDR_REG_COEFF3, LEN_COEFF1 + LEN_COEFF2,
                    LEN_COEFF_ALL - LEN_COEFF1 - LEN_COEFF2, "get_variant")

GetCoeff3 ==
    GetCoefficients("coeff3", ADDR_REG_COEFF3, LEN_COEFF1 + LEN_COEFF2,
                    LEN_COEFF_ALL - LEN_COEFF1 - LEN_COEFF2, "get_config")

\* the last step of bring-up, where Ok stores the driver's state; and the one
\* step of Bme680::get_chip_variant, which returns the variant
get_variant_id ==
    /\ pc = "get_variant"
    /\ \/ \E byte \in VariantBytes :
            /\ Logged(Event("R", ADDR_VARIANT_ID, <<byte>>))
            /\ history' = Reading(history, "variant_reads")
            /\ IF VariantFromU8(byte) = "panic"
               THEN /\ Return(Res("panic"))
                    /\ UNCHANGED driver
               ELSE IF op = "get_chip_variant"
               THEN /\ Return(Res("Ok"))
                    /\ UNCHANGED driver
               ELSE /\ Return(Res("Ok"))
                    /\ initialized' = TRUE
                    /\ calibration_data' = cal_pending
                    /\ variant' = VariantFromU8(byte)
                    /\ sensor_config' = IF drv = "sync" THEN current_conf
                                        ELSE sensor_config
                    /\ current_sensor_config' = IF drv = "async" THEN conf
                                                ELSE current_sensor_config
                    /\ UNCHANGED ambient_temperature
            /\ UNCHANGED <<fixed, op, locals, dev, calls>>
       \/ BusFails("RX", ADDR_VARIANT_ID, <<>>, "WriteReadError")

-----------------------------------------------------------------------------
(* I2CHelper::set_config, set_gas_config *)

\* the calibration data set_config is handed
ConfigCalibration == IF op = "set_configuration" THEN calibration_data ELSE cal_pending

\* set_configuration without the assignment of the new configuration would be
StoreConfiguration_dropped ==
    IF op = "set_configuration"
    THEN /\ Return(Res("Ok"))
         /\ UNCHANGED driver
    ELSE /\ pc' = "get_variant"
         /\ UNCHANGED <<result, driver>>

\* the caller stores the configuration once set_config returned Ok
StoreConfiguration ==
    IF op = "set_configuration"
    THEN /\ Return(Res("Ok"))
         /\ sensor_config' = IF drv = "sync" THEN current_conf ELSE sensor_config
         /\ current_sensor_config' = IF drv = "async" THEN conf
                                     ELSE current_sensor_config
         /\ UNCHANGED <<initialized, calibration_data, variant, ambient_temperature>>
    ELSE /\ pc' = "get_variant"
         /\ UNCHANGED <<result, driver>>

\* set_config writes the heater registers for `if let Some(gas_conf)`
WritesGasConfig_always(c) == TRUE

WritesGasConfig(c) == c.gas_config.present

\* get_config and apply_config
get_config ==
    /\ pc = "get_config"
    /\ \/ \E m \in ObservableModes(dev) :
            LET block == DeviceWithMode(dev, m).config
            IN  /\ dev' = DeviceWithMode(dev, m)
                /\ Logged(Event("R", ADDR_CONFIG, block))
                /\ current_conf' = apply_config(block, conf)
                /\ idx' = 0
                /\ pc' = "set_config_regs"
                /\ UNCHANGED <<fixed, op, mode, conf, control_register, coeff_buffer,
                               cal_pending, attempt, delay_period, driver, result,
                               history, calls>>
       \/ BusFails("RX", ADDR_CONFIG, <<>>, "WriteReadError")

\* set_registers_iter over ADDRS_CONFIG zipped with the block
set_registers_iter ==
    /\ pc = "set_config_regs"
    /\ \/ /\ dev' \in DeviceAfterWrite(dev, ADDRS_CONFIG[idx + 1], current_conf[idx + 1])
          /\ Logged(Event("W", ADDRS_CONFIG[idx + 1], <<current_conf[idx + 1]>>))
          /\ idx' = idx + 1
          /\ IF idx + 1 < LEN_CONFIG
             THEN pc' = "set_config_regs" /\ UNCHANGED <<result, driver>>
             ELSE IF WritesGasConfig(conf)
             THEN pc' = "set_gas_wait" /\ UNCHANGED <<result, driver>>
             ELSE StoreConfiguration
          /\ UNCHANGED <<fixed, op, mode, conf, control_register, current_conf,
                         coeff_buffer, cal_pending, attempt, delay_period, history,
                         calls>>
       \/ BusFails("WX", ADDRS_CONFIG[idx + 1], <<current_conf[idx + 1]>>, "WriteError")

SetGasWait ==
    /\ pc = "set_gas_wait"
    /\ LET gas_wait == calc_gas_wait(conf.gas_config)
       IN  \/ /\ dev' \in DeviceAfterWrite(dev, ADDR_GAS_WAIT_0, gas_wait)
              /\ Logged(Event("W", ADDR_GAS_WAIT_0, <<gas_wait>>))
              /\ pc' = "set_res_heat"
              /\ UNCHANGED <<fixed, op, locals, driver, result, history, calls>>
           \/ BusFails("WX", ADDR_GAS_WAIT_0, <<gas_wait>>, "WriteError")

\* set_gas_config with the ambient temperature of the constructor would be
SetResHeat_from_seed ==
    /\ pc = "set_res_heat"
    /\ LET res_heat == calc_res_heat(conf.gas_config, ConfigCalibration, seed)
       IN  \/ /\ dev' \in DeviceAfterWrite(dev, ADDR_RES_HEAT_0, res_heat)
              /\ Logged(Event("W", ADDR_RES_HEAT_0, <<res_heat>>))
              /\ StoreConfiguration
              /\ UNCHANGED <<fixed, op, locals, history, calls>>
           \/ BusFails("WX", ADDR_RES_HEAT_0, <<res_heat>>, "WriteError")

SetResHeat ==
    /\ pc = "set_res_heat"
    /\ LET res_heat == calc_res_heat(conf.gas_config, ConfigCalibration,
                                     ambient_temperature)
       IN  \/ /\ dev' \in DeviceAfterWrite(dev, ADDR_RES_HEAT_0, res_heat)
              /\ Logged(Event("W", ADDR_RES_HEAT_0, <<res_heat>>))
              /\ StoreConfiguration
              /\ UNCHANGED <<fixed, op, locals, history, calls>>
           \/ BusFails("WX", ADDR_RES_HEAT_0, <<res_heat>>, "WriteError")

-----------------------------------------------------------------------------
(* Bme680::measure, AsyncBme680::measure, after set_mode(Forced) returned Ok *)

StoredDelayPeriod ==
    IF drv = "sync"
    THEN calculate_delay_period_us(sensor_config)
    ELSE Configuration_calculate_delay_period_us(current_sensor_config)

FirstDelay(period) == IF drv = "sync" THEN SyncFirstDelay(period) ELSE AsyncFirstDelay(period)
RetryDelay(period) == IF drv = "sync" THEN SyncRetryDelay(period) ELSE AsyncRetryDelay(period)

\* the frame is decoded and returned
FrameReady(frame) == IF drv = "sync" THEN SyncFrameReady(frame) ELSE ~FromRawBails(frame)

Decoded(frame) ==
    IF drv = "sync"
    THEN SyncMeasurmentData(frame, calibration_data)
    ELSE from_raw(frame, calibration_data)

\* measure without the update of the ambient temperature
AmbientAfter_kept(data) == ambient_temperature

\* the ambient temperature measure stores before it returns data
AmbientAfter(data) == TemperatureAsI32(data.temperature)

\* the loop counter after one more pass
NextAttempt(i) == i + 1

\* compute the delay period and wait before the first read
MeasureDelay ==
    /\ pc = "measure_delay"
    /\ delay_period' = StoredDelayPeriod
    /\ Logged(Event("D", 0, <<FirstDelay(StoredDelayPeriod)>>))
    /\ attempt' = 0
    /\ pc' = "get_field_data"
    /\ UNCHANGED <<fixed, op, mode, conf, control_register, current_conf, coeff_buffer,
                   cal_pending, idx, driver, dev, result, history, calls>>

\* one read of the result frame; a ready frame is decoded and returned
get_field_data ==
    /\ pc = "get_field_data"
    /\ \/ \E frame \in Frames :
            /\ Logged(Event("R", ADDR_SENSOR_RESULT, frame))
            /\ IF FrameReady(frame)
               THEN LET data == Decoded(frame)
                    IN  /\ ambient_temperature' = AmbientAfter(data)
                        /\ Return([Res("Ok") EXCEPT !.data = data])
                        /\ history' = [history EXCEPT
                                          !.ok_measures = @ + 1, !.last_data = data,
                                          !.frame_read = TRUE]
               ELSE /\ pc' = "retry_delay"
                    /\ history' = [history EXCEPT !.frame_read = TRUE]
                    /\ UNCHANGED <<ambient_temperature, result>>
            /\ UNCHANGED <<fixed, op, locals, initialized, calibration_data,
                           sensor_config, current_sensor_config, variant, dev, calls>>
       \/ BusFails("RX", ADDR_SENSOR_RESULT, <<>>, "WriteReadError")

\* the wait after a frame that was not ready; the loop ends after MeasureAttempts
MeasureRetryDelay ==
    /\ pc = "retry_delay"
    /\ Logged(Event("D", 0, <<RetryDelay(delay_period)>>))
    /\ attempt' = NextAttempt(attempt)
    /\ IF NextAttempt(attempt) < MeasureAttempts
       THEN pc' = "get_field_data" /\ result' = result
       ELSE Return(Res("MeasuringTimeOut"))
    /\ UNCHANGED <<fixed, op, mode, conf, control_register, current_conf, coeff_buffer,
                   cal_pending, idx, delay_period, driver, dev, history, calls>>

-----------------------------------------------------------------------------

Next ==
    \/ New
    \/ Initialize
    \/ GetChipVariant
    \/ GetCalibrationData
    \/ WakeUp
    \/ PutToSleep
    \/ SetConfiguration
    \/ SetConfigurationUninitialized
    \/ Measure
    \/ MeasureUninitialized
    \/ GetCtrl
    \/ SetSleep
    \/ SleepDelay
    \/ SetForced
    \/ soft_reset
    \/ InitDelay
    \/ get_chip_id
    \/ GetCoeff1
    \/ GetCoeff2
    \/ GetCoeff3
    \/ get_variant_id
    \/ get_config
    \/ set_registers_iter
    \/ SetGasWait
    \/ SetResHeat
    \/ MeasureDelay
    \/ get_field_data
    \/ MeasureRetryDelay

Spec == Init /\ [][Next]_vars

\* The steps of a running call.  A call that has begun runs on: a blocking call
\* holds its thread, and an async call is polled to completion by its executor.
\* When the next call begins is up to the caller.
Running ==
    \/ GetCtrl
    \/ SetSleep
    \/ SleepDelay
    \/ SetForced
    \/ soft_reset
    \/ InitDelay
    \/ get_chip_id
    \/ GetCoeff1
    \/ GetCoeff2
    \/ GetCoeff3
    \/ get_variant_id
    \/ get_config
    \/ set_registers_iter
    \/ SetGasWait
    \/ SetResHeat
    \/ MeasureDelay
    \/ get_field_data
    \/ MeasureRetryDelay

FairSpec == Init /\ [][Next]_vars /\ WF_vars(Running)

-----------------------------------------------------------------------------
(* Reading the call log *)

IsWrite(e) == e.t \in {"W", "WX"}
IsRead(e) == e.t \in {"R", "RX"}
IsCtrl(e) == e.a = ADDR_CONTROL_MODE /\ e.t # "D"
ModeBits(e) == e.v[1] % 4
IsCtrlRead(e, m) == e.t = "R" /\ e.a = ADDR_CONTROL_MODE /\ ModeBits(e) = m
IsCtrlWrite(e, m) == IsWrite(e) /\ e.a = ADDR_CONTROL_MODE /\ ModeBits(e) = m

\* the bus transactions of the log, without the delays
Bus(l) == SelectSeq(l, LAMBDA e : e.t # "D")
\* the accesses to the control register
CtrlEvents(l) == SelectSeq(l, IsCtrl)
\* the reads of the control register that returned a value
CtrlReads(l) == SelectSeq(l, LAMBDA e : e.t = "R" /\ e.a = ADDR_CONTROL_MODE)

-----------------------------------------------------------------------------
(* C1: a write that sets the mode bits of the control register to Forced is  *)
(* issued only right after a read of the control register that reported      *)
(* Sleep, in every call.                                                     *)
C1_ForcedWriteOnlyAfterSleepRead ==
    \A i \in 1..Len(log) :
        IsCtrlWrite(log[i], 1) => i > 1 /\ IsCtrlRead(log[i - 1], 0)

\* a Forced write on a device that was first seen in Forced mode and put to sleep
C1_Witness ==
    \E i \in 5..Len(log) :
        /\ IsCtrlWrite(log[i], 1)
        /\ IsCtrlRead(log[i - 4], 1)
        /\ IsCtrlWrite(log[i - 3], 0)

(* C2: when the control register reads Forced and then Sleep, put_to_sleep   *)
(* (set_mode(Sleep)) issues exactly a read, a write of the value read with   *)
(* only the mode bits changed to Sleep, and a read; no Forced write.         *)
C2_ForcedToSleepSequence ==
    LET reads == CtrlReads(log)
        bus == Bus(log)
    IN  (/\ pc = "idle"
         /\ op = "put_to_sleep"
         /\ ~dropped
         /\ Len(reads) >= 2
         /\ ModeBits(reads[1]) = 1
         /\ ModeBits(reads[2]) = 0)
        => /\ Len(bus) = 3
           /\ bus[1] = reads[1]
           /\ bus[2] = Event("W", ADDR_CONTROL_MODE,
                             <<reads[1].v[1] - (reads[1].v[1] % 4)>>)
           /\ bus[3] = reads[2]
           /\ result.kind = "Ok"

\* the sequence of test_set_mode_forced_to_sleep: 0b101011_01 read, 0b101011_00 written
C2_Witness ==
    /\ pc = "idle"
    /\ op = "put_to_sleep"
    /\ result.kind = "Ok"
    /\ Len(log) = 4
    /\ log[1] = Event("R", ADDR_CONTROL_MODE, <<173>>)
    /\ log[2] = Event("W", ADDR_CONTROL_MODE, <<172>>)

(* C3: when the first read of the control register reports Sleep, set_mode   *)
(* issues that one read; then no write for the target Sleep, and exactly one *)
(* write for the target Forced, of the byte read with only the mode bits     *)
(* changed to 01.                                                            *)
C3_SleepFirstRead ==
    LET ctrl == CtrlEvents(log)
    IN  (/\ op \in {"put_to_sleep", "wake_up", "measure"}
         /\ ~dropped
         /\ Len(log) >= 1
         /\ IsCtrlRead(log[1], 0))
        => /\ ctrl[1] = log[1]
           /\ mode = "Sleep" => Len(ctrl) = 1
           /\ mode = "Forced" =>
                /\ Len(ctrl) = (IF pc = "set_forced" THEN 1 ELSE 2)
                /\ Len(ctrl) = 2 =>
                     /\ IsWrite(ctrl[2])
                     /\ ctrl[2].v = <<log[1].v[1] - (log[1].v[1] % 4) + 1>>

\* wake_up on a sleeping device with oversampling bits set
C3_Witness ==
    /\ pc = "idle"
    /\ op = "wake_up"
    /\ result.kind = "Ok"
    /\ Len(log) = 2
    /\ IsCtrlRead(log[1], 0)
    /\ log[1].v[1] >= 4

(* C4: every call to measure and to set_mode terminates, whatever the device *)
(* does: a call that has begun returns, also when the control register keeps *)
(* reporting Forced after each Sleep write.                                  *)
C4_CallsTerminate == (pc # "idle") ~> (pc = "idle")

(* C5: set_mode leaves its sleep loop only after a read of the control       *)
(* register that reported Sleep, and every write of Sleep is followed by the *)
(* fixed settle delay and then a read of the control register, before any    *)
(* other bus transaction.                                                    *)
\* set_mode's write of Sleep: set_config's block write reaches the control
\* register too, right after the register before it
SetModeSleepWrite(i) ==
    /\ log[i].t = "W"
    /\ IsCtrlWrite(log[i], 0)
    /\ ~(i > 1 /\ IsWrite(log[i - 1]) /\ log[i - 1].a = ADDR_CONTROL_MODE - 1)

C5_SleepLoop ==
    /\ \A i \in 1..Len(log) :
          SetModeSleepWrite(i) =>
              /\ i + 1 <= Len(log) => log[i + 1] = Event("D", 0, <<DELAY_PERIOD_US>>)
              /\ i + 2 <= Len(log) =>
                    IsRead(log[i + 2]) /\ log[i + 2].a = ADDR_CONTROL_MODE
              /\ pc = "idle" => i + 2 <= Len(log)
    /\ \A i \in 1..Len(log) :
          IsCtrlRead(log[i], 1) =>
              /\ i + 1 <= Len(log) => IsCtrlWrite(log[i + 1], 0)
              /\ pc = "idle" => i + 1 <= Len(log)
    /\ (\/ pc = "set_forced"
        \/ pc = "get_config" /\ op = "set_configuration"
        \/ pc = "measure_delay") =>
          \E i \in 1..Len(log) :
              /\ IsCtrlRead(log[i], 0)
              /\ \A j \in (i + 1)..Len(log) : IsCtrlWrite(log[j], 1)

\* the loop was run twice before the read that reported Sleep
C5_Witness ==
    \E i \in 1..Len(log) :
        /\ i + 7 <= Len(log)
        /\ IsCtrlRead(log[i], 1)
        /\ SetModeSleepWrite(i + 1)
        /\ IsCtrlRead(log[i + 3], 1)
        /\ SetModeSleepWrite(i + 4)
        /\ IsCtrlRead(log[i + 6], 0)

-----------------------------------------------------------------------------
\* the reads of the result frame, and those that returned a frame
FrameReads(l) == SelectSeq(l, LAMBDA e : IsRead(e) /\ e.a = ADDR_SENSOR_RESULT)
FramesRead(l) == SelectSeq(l, LAMBDA e : e.t = "R" /\ e.a = ADDR_SENSOR_RESULT)
BusFailed(l) == \E i \in 1..Len(l) : l[i].t \in {"RX", "WX"}

C7_OkOnlyFromNewData ==
    (op = "measure" /\ pc = "idle" /\ result.kind = "Ok")
        => RawData_new_data(result.data.frame)

(* C8: in measure, the wait after the Forced write and before the first      *)
(* frame read, and the wait after each frame that was not ready, all last    *)
(* delay_period_us as computed from the current configuration.               *)
C8_EqualWaits ==
    op = "measure" =>
        \A i \in 1..Len(log) :
            (/\ log[i].t = "D"
             /\ \E j \in 1..(i - 1) : IsCtrlWrite(log[j], 1))
            => log[i].v = <<StoredDelayPeriod>>

-----------------------------------------------------------------------------
(* C9: ambient_temperature is the temperature of the latest Ok of measure,   *)
(* truncated to an integer, or the constructor's seed when measure has not   *)
(* returned Ok yet; no other call and no failed measure changes it.          *)
C9_AmbientTemperature ==
    ambient_temperature =
        IF history.ok_measures = 0
        THEN seed
        ELSE TemperatureAsI32(history.last_data.temperature)

\* a call of set_configuration has returned after an Ok of measure
C9_Witness ==
    /\ history.ok_measures > 0
    /\ op = "set_configuration"
    /\ pc = "idle"
    /\ result.kind = "Ok"
    /\ ambient_temperature # seed

(* C10: gas_wait_0 and res_heat_0 are written only inside a set_config whose *)
(* Configuration has a gas_config: after the five configuration registers,   *)
(* gas_wait_0 first and res_heat_0 next.                                     *)
C10_GasRegistersOnlyWithGasConfig ==
    \A i \in 1..Len(log) :
        /\ (IsWrite(log[i]) /\ log[i].a = ADDR_GAS_WAIT_0) =>
              /\ op \in {"new", "initialize", "set_configuration"}
              /\ conf.gas_config.present
              /\ i > 1
              /\ log[i - 1].t = "W"
              /\ log[i - 1].a = ADDR_CONFIG + LEN_CONFIG - 1
        /\ (IsWrite(log[i]) /\ log[i].a = ADDR_RES_HEAT_0) =>
              /\ op \in {"new", "initialize", "set_configuration"}
              /\ conf.gas_config.present
              /\ i > 1
              /\ log[i - 1].t = "W"
              /\ log[i - 1].a = ADDR_GAS_WAIT_0

\* set_configuration with a gas_config has written both registers
C10_Witness ==
    /\ op = "set_configuration"
    /\ pc = "idle"
    /\ result.kind = "Ok"
    /\ Len(log) >= 2
    /\ log[Len(log)].a = ADDR_RES_HEAT_0
    /\ log[Len(log) - 1].a = ADDR_GAS_WAIT_0

-----------------------------------------------------------------------------
\* the reads at addr that returned, in the log
ReadsOf(l, addr) == Len(SelectSeq(l, LAMBDA e : e.t = "R" /\ e.a = addr))

BringUpOk == op \in {"new", "initialize"} /\ pc = "idle" /\ result.kind = "Ok"

(* C11: over the lifetime of a driver instance, the three calibration ranges *)
(* and the variant-ID register are each read exactly once, and all of these  *)
(* reads happen before the first read of the result frame.                   *)
C11_ReadExactlyOnce ==
    /\ history.coeff1_reads <= 1
    /\ history.coeff2_reads <= 1
    /\ history.coeff3_reads <= 1
    /\ history.variant_reads <= 1
    /\ ~history.late_read
    /\ history.frame_read =>
          /\ history.coeff1_reads = 1
          /\ history.coeff2_reads = 1
          /\ history.coeff3_reads = 1
          /\ history.variant_reads = 1

(* C11, amended: each successful bring-up reads the three calibration ranges *)
(* and the variant-ID register exactly once each, and every read of the      *)
(* result frame comes after such reads; a repeated initialize and            *)
(* get_chip_variant read them again.                                         *)
C11_ReadOncePerBringUp ==
    /\ BringUpOk =>
          /\ ReadsOf(log, ADDR_REG_COEFF1) = 1
          /\ ReadsOf(log, ADDR_REG_COEFF2) = 1
          /\ ReadsOf(log, ADDR_REG_COEFF3) = 1
          /\ ReadsOf(log, ADDR_VARIANT_ID) = 1
    /\ history.frame_read =>
          /\ history.coeff1_reads >= 1
          /\ history.coeff2_reads >= 1
          /\ history.coeff3_reads >= 1
          /\ history.variant_reads >= 1

\* a second bring-up has succeeded after a measurement
C11_Witness ==
    /\ BringUpOk
    /\ history.frame_read
    /\ history.coeff3_reads = 2
    /\ history.variant_reads = 2

\* the transactions and delays of a bring-up with Configuration c, as <<type, address>>
BringUpOrder(c) ==
    <<  <<"W", ADDR_SOFT_RESET>>, <<"D", 0>>, <<"R", ADDR_CHIP_ID>>,
        <<"R", ADDR_REG_COEFF1>>, <<"R", ADDR_REG_COEFF2>>, <<"R", ADDR_REG_COEFF3>>,
        <<"R", ADDR_CONFIG>>  >>
    \o [k \in 1..LEN_CONFIG |-> <<"W", ADDR_CONFIG + k - 1>>]
    \o (IF c.gas_config.present
        THEN << <<"W", ADDR_GAS_WAIT_0>>, <<"W", ADDR_RES_HEAT_0>> >>
        ELSE << >>)
    \o << <<"R", ADDR_VARIANT_ID>> >>

FailedAs(t) == IF t = "R" THEN "RX" ELSE IF t = "W" THEN "WX" ELSE "none"

WrongChipId(i) == log[i].t = "R" /\ log[i].a = ADDR_CHIP_ID /\ log[i].v # <<CHIP_ID>>

(* C13: when the chip-ID register returns a byte other than CHIP_ID, init    *)
(* fails with UnexpectedChipId carrying that byte and bring-up stops there:  *)
(* no calibration read, config access or variant read follows, and the call  *)
(* leaves the driver's state as it was, so a driver that was not initialized *)
(* stays uninitialized.                                                      *)
C13_UnexpectedChipId ==
    /\ [](\A i \in 1..Len(log) :
              WrongChipId(i) =>
                  /\ i = Len(log)
                  /\ pc = "idle"
                  /\ result.kind = "UnexpectedChipId"
                  /\ result.chip_id = log[i].v[1])
    /\ [][result'.kind = "UnexpectedChipId" =>
              /\ driver' = driver
              /\ history'.coeff1_reads = history.coeff1_reads
              /\ history'.variant_reads = history.variant_reads]_vars

\* initialize on a driver that was never initialized met the chip id 96
C13_Witness ==
    /\ drv = "async"
    /\ op = "initialize"
    /\ pc = "idle"
    /\ result.kind = "UnexpectedChipId"
    /\ result.chip_id = 96
    /\ ~initialized
    /\ Len(log) = 3

-----------------------------------------------------------------------------
(* C14: on the deferred-init driver, put_to_sleep, set_configuration,        *)
(* measure and get_calibration_data, called before a successful initialize,  *)
(* fail with Uninitialized.                                                  *)
C14_UninitializedFails ==
    (/\ drv = "async"
     /\ ~initialized
     /\ op \in {"put_to_sleep", "set_configuration", "measure", "get_calibration_data"}
     /\ pc = "idle")
    => /\ result.kind = "Uninitialized"
       /\ log = << >>

(* C15: when a bus transaction fails inside an operation, the operation      *)
(* returns at once with WriteError, for a write, or WriteReadError, for a    *)
(* write-then-read: the transaction is not tried again and the call issues   *)
(* no further bus transaction or delay.                                      *)
C15_BusFailureReturns ==
    \A i \in 1..Len(log) :
        log[i].t \in {"RX", "WX"} =>
            /\ i = Len(log)
            /\ pc = "idle"
            /\ result.kind = (IF log[i].t = "WX" THEN "WriteError" ELSE "WriteReadError")

\* the third write of set_config's block has failed
C15_Witness ==
    /\ op = "set_configuration"
    /\ pc = "idle"
    /\ result.kind = "WriteError"
    /\ Len(log) >= 4
    /\ log[Len(log)] = Event("WX", ADDR_CONFIG + 2, <<current_conf[3]>>)

-----------------------------------------------------------------------------
\* an access of set_config: the read of the 5-byte block, a write of a
\* configuration register other than the control register, or a heater write
ConfigAccess(e) ==
    \/ IsRead(e) /\ e.a = ADDR_CONFIG
    \/ /\ IsWrite(e)
       /\ e.a \in ((ADDR_CONFIG..(ADDR_CONFIG + LEN_CONFIG - 1)) \ {ADDR_CONTROL_MODE})
                     \cup {ADDR_GAS_WAIT_0, ADDR_RES_HEAT_0}

(* C16: set_configuration reads or writes a configuration or heater register *)
(* only after a read of the control register has reported Sleep: the read of *)
(* the config block comes right after that read, and the writes after it.    *)
C16_SleepBeforeConfig ==
    op = "set_configuration" =>
        \A i \in 1..Len(log) :
            ConfigAccess(log[i]) =>
                \E j \in 1..(i - 1) :
                    /\ IsCtrlRead(log[j], 0)
                    /\ \A k \in (j + 1)..(i - 1) :
                          /\ ~IsCtrlRead(log[k], 1)
                          /\ ~IsCtrlWrite(log[k], 1)
                          /\ log[k].t # "D"
                    /\ IsRead(log[j + 1]) /\ log[j + 1].a = ADDR_CONFIG

\* set_configuration found the device in forced mode and has written the heater registers
C16_Witness ==
    /\ op = "set_configuration"
    /\ pc = "idle"
    /\ result.kind = "Ok"
    /\ IsCtrlRead(log[1], 1)
    /\ log[Len(log)].a = ADDR_RES_HEAT_0

-----------------------------------------------------------------------------
\* the configuration the driver keeps for the delay period of measure
StoredConfiguration == IF drv = "sync" THEN sensor_config ELSE current_sensor_config

(* C17: the stored current configuration of a driver changes only when       *)
(* set_configuration completes successfully.                                 *)
C17_OnlySetConfigurationStores ==
    [][(initialized /\ StoredConfiguration' # StoredConfiguration)
          => (op' = "set_configuration" /\ pc' = "idle" /\ result'.kind = "Ok")]_vars

(* C17, amended: the stored current configuration changes only when          *)
(* set_configuration or a bring-up (Bme680::new, AsyncBme680::initialize,    *)
(* also a repeated one) completes successfully, and it is then that call's   *)
(* configuration; a call that fails at any step leaves it as it was.         *)
C17_StoredOnSuccess ==
    [][/\ (StoredConfiguration' # StoredConfiguration) =>
            /\ op' \in {"set_configuration", "new", "initialize"}
            /\ pc' = "idle"
            /\ result'.kind = "Ok"
            /\ StoredConfiguration' = (IF drv = "sync" THEN current_conf ELSE conf)
       /\ (pc # "idle" /\ pc' = "idle" /\ result'.kind # "Ok") =>
            /\ sensor_config' = sensor_config
            /\ current_sensor_config' = current_sensor_config]_vars

\* set_configuration has failed at the last heater write, with a configuration
\* that is not the stored one
C17_Witness ==
    /\ op = "set_configuration"
    /\ pc = "idle"
    /\ result.kind = "WriteError"
    /\ log[Len(log)].a = ADDR_RES_HEAT_0
    /\ drv = "async"
    /\ current_sensor_config # conf

-----------------------------------------------------------------------------
(* RawConfig::apply_config on its own: the raw block and the Configuration
   are drawn at the start, and one step applies the one to the other.  The
   block is held in current_conf, the Configuration in conf, and the block
   after the call in sensor_config. *)

\* byte values that show every bit of a byte both set and clear
RawBytes == {0, 85, 170, 255}

RawBlocks == [1..LEN_CONFIG -> RawBytes]

AppliedConfigurations ==
    [temperature_oversampling : {"None", "By2", "By16"},
     pressure_oversampling : {"None", "Skipped", "By16"},
     humidity_oversampling : {"None", "By1", "By8"},
     filter : {"None", "Coeff0", "Coeff127"},
     gas_config : {NoGasConfig, GasConfigDefault}]

ApplyInit ==
    /\ drv = "sync"
    /\ seed \in Seeds
    /\ target_endian = "little"
    /\ pc = "apply_config"
    /\ op = "apply_config"
    /\ mode = "Sleep"
    /\ conf \in AppliedConfigurations
    /\ control_register = 0
    /\ current_conf \in RawBlocks
    /\ coeff_buffer = [k \in 1..LEN_COEFF_ALL |-> 0]
    /\ cal_pending = NoCalibration
    /\ idx = 0
    /\ attempt = 0
    /\ delay_period = 0
    /\ initialized = FALSE
    /\ calibration_data = NoCalibration
    /\ sensor_config = current_conf
    /\ current_sensor_config = AllNoneConfiguration
    /\ variant = "GasLow"
    /\ ambient_temperature = seed
    /\ dev = ResetDevice
    /\ log = <<>>
    /\ dropped = FALSE
    /\ result = Res("none")
    /\ history = NoHistory
    /\ calls = 0

Apply ==
    /\ pc = "apply_config"
    /\ sensor_config' = apply_config(current_conf, conf)
    /\ pc' = "applied"
    /\ UNCHANGED <<drv, seed, target_endian, op, mode, conf, control_register, current_conf,
                   coeff_buffer, cal_pending, idx, attempt, delay_period,
                   initialized, calibration_data, current_sensor_config, variant,
                   ambient_temperature, dev, log, dropped, result, history, calls>>

ApplySpec == ApplyInit /\ [][Apply]_vars

-----------------------------------------------------------------------------
(* C18 *)

\* the bits of byte k of the block that the call left as they were
SameBits(k, lo, width) ==
    Bits(RawByte(sensor_config, k), lo, width) = Bits(RawByte(current_conf, k), lo, width)

\* C18: apply_config leaves the bits of every field whose Configuration entry
\* is None as they were (run_gas and the heater profile for the gas config),
\* and leaves the bits of no field as they were: the mode bits of byte 3, the
\* upper bits of bytes 0, 1 and 4, the low bits of byte 4, and byte 2.
C18_ApplyConfigMerges ==
    pc = "applied" =>
        /\ conf.temperature_oversampling = "None" => SameBits(3, 5, 3)
        /\ conf.pressure_oversampling = "None" => SameBits(3, 2, 3)
        /\ conf.humidity_oversampling = "None" => SameBits(1, 0, 3)
        /\ conf.filter = "None" => SameBits(4, 2, 3)
        /\ ~conf.gas_config.present => SameBits(0, 0, 5)
        /\ SameBits(0, 5, 3)
        /\ SameBits(1, 3, 5)
        /\ SameBits(2, 0, 8)
        /\ SameBits(3, 0, 2)
        /\ SameBits(4, 0, 2)
        /\ SameBits(4, 5, 3)

\* a block of mixed bits to which a Configuration with some entries None and
\* some present was applied, and which the call changed
C18_Witness ==
    /\ pc = "applied"
    /\ current_conf = <<255, 170, 85, 255, 170>>
    /\ conf.temperature_oversampling = "None"
    /\ conf.humidity_oversampling = "None"
    /\ ~conf.gas_config.present
    /\ conf.pressure_oversampling = "Skipped"
    /\ conf.filter = "Coeff0"
    /\ sensor_config = <<255, 170, 85, 227, 162>>

-----------------------------------------------------------------------------
(* C19 *)

\* C19: apply_config with a gas config present leaves the run_gas bit (byte 0
\* bit 4) set and the heater profile (byte 0 bits 3:0) zero, whatever the
\* block held there before.
C19_GasConfigForcesRunGas ==
    (pc = "applied" /\ conf.gas_config.present) =>
        /\ Bits(RawByte(sensor_config, 0), 4, 1) = 1
        /\ Bits(RawByte(sensor_config, 0), 0, 4) = 0

\* a block whose run_gas bit was clear and whose heater profile was not zero
C19_Witness ==
    /\ pc = "applied"
    /\ conf.gas_config.present
    /\ RawByte(current_conf, 0) = 170
    /\ RawByte(sensor_config, 0) = 176

-----------------------------------------------------------------------------
(* C20 *)

\* C20: once a bring-up or a set_configuration whose Configuration has no gas
\* config has returned Ok, the run_gas bit of the device (register 0x71 bit 4)
\* is clear, whatever was configured before.
C20_NoGasConfigClearsRunGas ==
    (/\ pc = "idle"
     /\ op \in {"new", "initialize", "set_configuration"}
     /\ result.kind = "Ok"
     /\ ~conf.gas_config.present)
        => Bits(RawByte(dev.config, 0), 4, 1) = 0

-----------------------------------------------------------------------------
(* C21 *)

\* C21: the MeasurmentData of every measure that returned Ok holds a gas
\* resistance exactly when the frame it was decoded from has gas_valid (byte 14
\* bit 5) set and gas_measuring (byte 0 bit 6) clear.
C21_GasResistanceWhenValid ==
    (op = "measure" /\ pc = "idle" /\ result.kind = "Ok") =>
        (result.data.gas_resistance
            <=> (/\ Bits(result.data.frame[15], 5, 1) = 1
                 /\ Bits(result.data.frame[1], 6, 1) = 0))

-----------------------------------------------------------------------------
(* C22 *)

\* C22: a bring-up with the default Configuration, which applies it to the
\* all-zero block read after the soft reset, leaves the config registers at
\* 0b00010000, 0b00000101, 0, 0b01000100, 0b00000100.
C22_DefaultRawConfig ==
    (/\ op \in {"new", "initialize"}
     /\ pc = "idle"
     /\ result.kind = "Ok"
     /\ conf = ConfigurationDefault)
        => dev.config = <<16, 5, 0, 68, 4>>

-----------------------------------------------------------------------------
(* RawData on its own: a 15-byte frame and the byte order of the build are
   drawn at the start, and one step reads every field of the frame through
   its getter.  The frame is held in result.data.frame, the fields read in
   history.last_data. *)

\* two complementary bytes whose nibbles differ: 0b00110101 and 0b11001010
FrameBytes == {53, 202}

DecodedFrames == [1..15 -> FrameBytes]

Targets == {"little", "big"}

\* every getter of RawData
RawData(frame, t) ==
    [new_data |-> RawData_new_data(frame),
     gas_measuring |-> RawData_gas_measuring(frame),
     measuring |-> RawData_measuring(frame),
     gas_meas_index |-> RawData_gas_meas_index(frame),
     pressure_adc |-> RawData_pressure_adc(frame, t),
     temperature_adc |-> RawData_temperature_adc(frame, t),
     humidity_adc |-> RawData_humidity_adc(frame, t),
     gas_adc |-> RawData_gas_adc(frame),
     gas_valid |-> RawData_gas_valid(frame),
     heater_sable |-> RawData_heater_sable(frame),
     gas_range |-> RawData_gas_range(frame)]

DecodeInit ==
    /\ drv = "sync"
    /\ seed \in Seeds
    /\ target_endian \in Targets
    /\ pc = "raw_data"
    /\ op = "raw_data"
    /\ mode = "Sleep"
    /\ conf = AllNoneConfiguration
    /\ control_register = 0
    /\ current_conf = ResetConfig
    /\ coeff_buffer = [k \in 1..LEN_COEFF_ALL |-> 0]
    /\ cal_pending = NoCalibration
    /\ idx = 0
    /\ attempt = 0
    /\ delay_period = 0
    /\ initialized = FALSE
    /\ calibration_data = NoCalibration
    /\ sensor_config = ResetConfig
    /\ current_sensor_config = AllNoneConfiguration
    /\ variant = "GasLow"
    /\ ambient_temperature = seed
    /\ dev = ResetDevice
    /\ log = <<>>
    /\ dropped = FALSE
    /\ \E frame \in DecodedFrames : result = [Res("none") EXCEPT !.data.frame = frame]
    /\ history = NoHistory
    /\ calls = 0

Decode ==
    /\ pc = "raw_data"
    /\ history' = [history EXCEPT !.last_data = RawData(result.data.frame, target_endian)]
    /\ pc' = "decoded"
    /\ UNCHANGED <<fixed, op, locals, driver, dev, log, dropped, result, calls>>

DecodeSpec == DecodeInit /\ [][Decode]_vars

-----------------------------------------------------------------------------
(* C23 *)

\* bit n of byte k of the frame that was decoded
FrameBit(k, n) == (result.data.frame[k + 1] \div (2 ^ n)) % 2 = 1

FrameByte(k) == result.data.frame[k + 1]

\* the fields as the frame layout defines them
FieldsByLayout ==
    LET d == history.last_data
    IN  /\ d.new_data = FrameBit(0, 7)
        /\ d.gas_measuring = FrameBit(0, 6)
        /\ d.measuring = FrameBit(0, 5)
        /\ d.gas_meas_index = FrameByte(0) % 16
        /\ d.pressure_adc = FrameByte(2) * 4096 + FrameByte(3) * 16 + FrameByte(4) \div 16
        /\ d.temperature_adc = FrameByte(5) * 4096 + FrameByte(6) * 16 + FrameByte(7) \div 16
        /\ d.humidity_adc = FrameByte(8) * 256 + FrameByte(9)
        /\ d.gas_adc = FrameByte(13) * 4 + FrameByte(14) \div 64
        /\ d.gas_valid = FrameBit(14, 5)
        /\ d.heater_sable = FrameBit(14, 4)
        /\ d.gas_range = FrameByte(14) % 16

\* C23: for every 15-byte frame the getters of RawData yield new_data,
\* gas_measuring, measuring and gas_meas_index from bits 7, 6, 5 and 3:0 of
\* byte 0, the pressure and the temperature as (msb<<12)|(lsb<<4)|(xlsb>>4) of
\* bytes 2..4 and 5..7, the humidity as (b[8]<<8)|b[9], the gas value as
\* (b[13]<<2)|(b[14]>>6), and gas_valid, heater_stable and gas_range from bits
\* 5, 4 and 3:0 of byte 14.
C23_FrameDecoding == pc = "decoded" => FieldsByLayout

-----------------------------------------------------------------------------
(* GasConfig::calc_gas_wait on its own: a heater duration is drawn at the
   start, and one step computes the byte set_gas_config would write to
   gas_wait_0.  The GasConfig is held in conf, the byte in dev.gas_wait. *)

\* every duration below the cap and some above it
MaxSmallDuration == 4200

\* durations that no longer fit the u16 the code casts them to, and the last
\* that does
LargeDurations == {65535, 65536, 65636, 100000, 131072}

HeaterDurations == (0..MaxSmallDuration) \cup LargeDurations

GasWaitInit ==
    /\ drv = "sync"
    /\ seed \in Seeds
    /\ target_endian = "little"
    /\ pc = "calc_gas_wait"
    /\ op = "calc_gas_wait"
    /\ mode = "Sleep"
    /\ \E d \in HeaterDurations :
          conf = [AllNoneConfiguration EXCEPT
                     !.gas_config = [GasConfigDefault EXCEPT !.heater_duration = d]]
    /\ control_register = 0
    /\ current_conf = ResetConfig
    /\ coeff_buffer = [k \in 1..LEN_COEFF_ALL |-> 0]
    /\ cal_pending = NoCalibration
    /\ idx = 0
    /\ attempt = 0
    /\ delay_period = 0
    /\ initialized = FALSE
    /\ calibration_data = NoCalibration
    /\ sensor_config = ResetConfig
    /\ current_sensor_config = AllNoneConfiguration
    /\ variant = "GasLow"
    /\ ambient_temperature = seed
    /\ dev = ResetDevice
    /\ log = <<>>
    /\ dropped = FALSE
    /\ result = Res("none")
    /\ history = NoHistory
    /\ calls = 0

CalcGasWait ==
    /\ pc = "calc_gas_wait"
    /\ dev' = [dev EXCEPT !.gas_wait = calc_gas_wait(conf.gas_config)]
    /\ pc' = "gas_wait"
    /\ UNCHANGED <<fixed, op, locals, driver, log, dropped, result, history, calls>>

GasWaitSpec == GasWaitInit /\ [][CalcGasWait]_vars

-----------------------------------------------------------------------------
(* C24 *)

\* C24: for every heater duration of 0xFFF ms or more, calc_gas_wait returns
\* 0xFF.
C24_LongDurationsSaturate ==
    (pc = "gas_wait" /\ conf.gas_config.heater_duration >= 4095)
        => dev.gas_wait = 255

-----------------------------------------------------------------------------
(* C25 *)

\* f divisions by 4 bring d to at most 0x3F, and fewer do not
DivisionsNeeded(d, f) ==
    /\ d \div (4 ^ f) <= 63
    /\ f > 0 => d \div (4 ^ (f - 1)) > 63

\* C25: for every heater duration d below 0xFFF ms, calc_gas_wait returns
\* m + 64 * f, with f in 0..3 the number of divisions by 4 that bring d to at
\* most 0x3F and m the quotient they leave; 100 ms gives 0x59, and the result
\* fits a byte.
C25_GasWaitEncoding ==
    (pc = "gas_wait" /\ conf.gas_config.heater_duration < 4095) =>
        LET d == conf.gas_config.heater_duration
        IN  /\ \E f \in 0..3 :
                /\ DivisionsNeeded(d, f)
                /\ dev.gas_wait = d \div (4 ^ f) + 64 * f
            /\ dev.gas_wait \in 0..255
            /\ d = 100 => dev.gas_wait = 89

\* the duration of test_gas_config, encoded with one division
C25_Witness ==
    /\ pc = "gas_wait"
    /\ conf.gas_config.heater_duration = 100
    /\ dev.gas_wait = 89

-----------------------------------------------------------------------------
(* C26 *)

\* the bring-up's last transaction read this byte from the variant-ID register
VariantByteRead(byte) ==
    /\ Len(log) > 0
    /\ log[Len(log)].t = "R"
    /\ log[Len(log)].a = ADDR_VARIANT_ID
    /\ log[Len(log)].v = <<byte>>

\* C26: a bring-up whose read of the variant-ID register returned a byte other
\* than 0 or 1 returns the error InvalidVariantByte to the caller; it does not
\* panic.
C26_InvalidVariantByte ==
    (/\ op \in {"new", "initialize"}
     /\ pc = "idle"
     /\ \E byte \in VariantBytes \ {0, 1} : VariantByteRead(byte))
        => result.kind = "InvalidVariantByte"

-----------------------------------------------------------------------------
(* calculate_humidity on its own: a humidity ADC value, the humidity
   coefficients and t_fine are drawn at the start, and one step computes the
   humidity.  The ADC value is held in the frame of result.data and t_fine in
   its temperature, the coefficients in calibration_data; the step adds the
   humidity to result.data. *)

\* humidity ADC values over the whole u16 range (both bytes equal), and those
\* of test_calc_humidity
HumidityAdcs == {k * 256 + k : k \in 0..255} \cup {25531, 25537, 25549}

\* t_fine at -40, 0, 21.45 and 85 degrees
TFines == {-204800, 0, 109842, 435200}

HumidityCoefficients(h1, h2, h3, h4, h5, h6, h7) ==
    [par_h1 |-> h1, par_h2 |-> h2, par_h3 |-> h3, par_h4 |-> h4, par_h5 |-> h5,
     par_h6 |-> h6, par_h7 |-> h7]

\* the coefficients of data.rs tests::CALIBRATION_DATA, the extremes of the
\* coefficients' types (par_h1 and par_h2 hold 12 bits), and all zero
HumidityCalibrations ==
    {HumidityCoefficients(881, 989, 0, 45, 20, 120, -100),
     HumidityCoefficients(0, 4095, -128, 127, 127, 255, 127),
     HumidityCoefficients(4095, 4095, 127, -128, -128, 255, -128),
     HumidityCoefficients(0, 0, 0, 0, 0, 0, 0)}

HumidityFrame(adc) ==
    [MakeFrame(128, 117, 243) EXCEPT ![9] = adc \div 256, ![10] = adc % 256]

HumidityInit ==
    /\ drv = "sync"
    /\ seed \in Seeds
    /\ target_endian = "little"
    /\ pc = "calculate_humidity"
    /\ op = "calculate_humidity"
    /\ mode = "Sleep"
    /\ conf = AllNoneConfiguration
    /\ control_register = 0
    /\ current_conf = ResetConfig
    /\ coeff_buffer = [k \in 1..LEN_COEFF_ALL |-> 0]
    /\ cal_pending = NoCalibration
    /\ idx = 0
    /\ attempt = 0
    /\ delay_period = 0
    /\ initialized = TRUE
    /\ calibration_data \in HumidityCalibrations
    /\ sensor_config = ResetConfig
    /\ current_sensor_config = AllNoneConfiguration
    /\ variant = "GasLow"
    /\ ambient_temperature = seed
    /\ dev = ResetDevice
    /\ log = <<>>
    /\ dropped = FALSE
    /\ \E adc \in HumidityAdcs, t_fine \in TFines :
          result = [Res("none") EXCEPT !.data.frame = HumidityFrame(adc),
                                       !.data.temperature = t_fine]
    /\ history = NoHistory
    /\ calls = 0

CalculateHumidity ==
    /\ pc = "calculate_humidity"
    /\ LET humidity == calculate_humidity(
                           RawData_humidity_adc(result.data.frame, target_endian),
                           calibration_data, result.data.temperature)
       IN  result' = [kind |-> "Ok", chip_id |-> 0,
                      data |-> [result.data EXCEPT !.humidity = humidity]]
    /\ pc' = "humidity"
    /\ UNCHANGED <<fixed, op, locals, driver, dev, log, dropped, history, calls>>

HumiditySpec == HumidityInit /\ [][CalculateHumidity]_vars

-----------------------------------------------------------------------------
(* C27 *)

-----------------------------------------------------------------------------
(* C28 *)

\* what set_config issues for the block it read, Configuration c, calibration
\* data cal and ambient temperature ambient
SetConfigEvents(block, c, cal, ambient) ==
    << Event("R", ADDR_CONFIG, block) >>
    \o [k \in 1..5 |-> Event("W", ADDR_CONFIG + (k - 1), <<apply_config(block, c)[k]>>)]
    \o (IF c.gas_config.present
        THEN << Event("W", ADDR_GAS_WAIT_0, <<calc_gas_wait(c.gas_config)>>),
                Event("W", ADDR_RES_HEAT_0, <<calc_res_heat(c.gas_config, cal, ambient)>>) >>
        ELSE << >>)

\* the log from its entry k on, without the variant-ID read that ends a bring-up
FromConfigRead(k) ==
    SubSeq(log, k, IF op = "set_configuration" THEN Len(log) ELSE Len(log) - 1)

\* C28: in every call that ran set_config and returned Ok, set_config issued
\* exactly one 5-byte read at the config base address, then the five bytes of
\* the overlaid block as single writes to base+0 .. base+4 in ascending order,
\* then, only if a gas config is present, the gas_wait_0 write followed by the
\* res_heat_0 write computed from the ambient temperature the driver holds.
C28_SetConfigTransactions ==
    (/\ op \in {"new", "initialize", "set_configuration"}
     /\ pc = "idle"
     /\ result.kind = "Ok")
        => /\ ReadsOf(log, ADDR_CONFIG) = 1
           /\ \E k \in 1..Len(log) :
                 /\ log[k].t = "R"
                 /\ log[k].a = ADDR_CONFIG
                 /\ FromConfigRead(k)
                        = SetConfigEvents(log[k].v, conf, calibration_data,
                                          ambient_temperature)

\* a set_configuration after a measurement that moved the ambient temperature
\* away from the constructor's: res_heat_0 is the byte for 69 degrees
C28_Witness ==
    /\ op = "set_configuration"
    /\ pc = "idle"
    /\ result.kind = "Ok"
    /\ conf.gas_config.heater_target_temperature = 373
    /\ ambient_temperature = 69
    /\ seed = 20
    /\ log[Len(log)] = Event("W", ADDR_RES_HEAT_0, <<240>>)
    /\ calc_res_heat(conf.gas_config, calibration_data, seed) = 239

-----------------------------------------------------------------------------
(* C29 *)

\* the running measure has just read this result frame
FrameJustRead(frame) ==
    /\ op = "measure"
    /\ Len(log) > 0
    /\ log[Len(log)] = Event("R", ADDR_SENSOR_RESULT, frame)

\* what the other driver does with a frame: whether it takes it as ready, and
\* whether the data it returns holds a gas resistance
OtherDriverReady(frame) ==
    IF drv = "sync" THEN ~FromRawBails(frame) ELSE SyncFrameReady(frame)

OtherDriverGasResistance(frame) ==
    IF drv = "sync"
    THEN from_raw(frame, calibration_data).gas_resistance
    ELSE SyncMeasurmentData(frame, calibration_data).gas_resistance

\* C29: the blocking and the deferred driver run the same measure: whatever
\* frame the device returns, the driver that read it takes it as ready exactly
\* when the other driver would, so both return at the same attempt or both time
\* out, and the data it returns holds a gas resistance exactly when the other
\* driver's would.
C29_SameMeasureStateMachine ==
    \A frame \in Frames :
        FrameJustRead(frame) =>
            LET ready == pc = "idle" /\ result.kind = "Ok"
            IN  /\ ready <=> OtherDriverReady(frame)
                /\ ready => (result.data.gas_resistance
                                <=> OtherDriverGasResistance(frame))

-----------------------------------------------------------------------------
(* Bme680::calculate_delay_period_us on its own: the stored raw block is
   drawn at the start with every encoding of the three oversampling fields,
   and one step computes the delay period of measure. *)

\* the eight encodings of a 3-bit oversampling field
OversamplingEncodings == 0..7

OversamplingBlock(t, p, h) ==
    [ResetConfig EXCEPT ![4] = t * 32 + p * 4, ![2] = h]

DelayInit ==
    /\ drv = "sync"
    /\ seed \in Seeds
    /\ target_endian = "little"
    /\ pc = "calculate_delay_period_us"
    /\ op = "measure"
    /\ mode = "Forced"
    /\ conf = AllNoneConfiguration
    /\ control_register = 0
    /\ current_conf = ResetConfig
    /\ coeff_buffer = [k \in 1..LEN_COEFF_ALL |-> 0]
    /\ cal_pending = NoCalibration
    /\ idx = 0
    /\ attempt = 0
    /\ delay_period = 0
    /\ initialized = TRUE
    /\ calibration_data = NoCalibration
    /\ \E t \in OversamplingEncodings, p \in OversamplingEncodings,
          h \in OversamplingEncodings : sensor_config = OversamplingBlock(t, p, h)
    /\ current_sensor_config = AllNoneConfiguration
    /\ variant = "GasLow"
    /\ ambient_temperature = seed
    /\ dev = ResetDevice
    /\ log = <<>>
    /\ dropped = FALSE
    /\ result = Res("running")
    /\ history = NoHistory
    /\ calls = 0

CalculateDelayPeriod ==
    /\ pc = "calculate_delay_period_us"
    /\ delay_period' = calculate_delay_period_us(sensor_config)
    /\ pc' = "delay_period"
    /\ UNCHANGED <<fixed, op, mode, conf, control_register, current_conf, coeff_buffer,
                   cal_pending, idx, attempt, driver, dev, log, dropped, result,
                   history, calls>>

DelaySpec == DelayInit /\ [][CalculateDelayPeriod]_vars

-----------------------------------------------------------------------------
(* C30 *)

\* the cycles of an oversampling, as the claim lists them
CyclesListed ==
    [o \in Oversamplings |->
        CASE o = "Skipped" -> 0 [] o = "By1" -> 1 [] o = "By2" -> 2
          [] o = "By4" -> 4 [] o = "By8" -> 8 [] o = "By16" -> 16]

\* C30: the delay period of a measurement is the cycles of the temperature,
\* humidity and pressure oversamplings (0, 1, 2, 4, 8, 16 for Skipped, By1, By2,
\* By4, By8, By16), added up and multiplied by CYCLE_DURATION, plus
\* TPH_SWITCHING_DURATION, GAS_MEAS_DURATION and WAKEUP_DURATION, and it fits
\* 32 bits for every combination of oversamplings.
C30_DelayPeriod ==
    pc = "delay_period" =>
        /\ delay_period
             = (CyclesListed[RawConfig_temperature_oversampling(sensor_config)]
                + CyclesListed[RawConfig_humidity_oversampling(sensor_config)]
                + CyclesListed[RawConfig_pressure_oversampling(sensor_config)])
               * CYCLE_DURATION
               + TPH_SWITCHING_DURATION + GAS_MEAS_DURATION + WAKEUP_DURATION
        /\ delay_period >= 0
        /\ delay_period \div 65536 < 65536

\* all three oversamplings By16: 48 cycles, the longest delay period
C30_Witness ==
    /\ pc = "delay_period"
    /\ sensor_config = <<0, 5, 0, 180, 0>>
    /\ delay_period = 48 * CYCLE_DURATION
                      + TPH_SWITCHING_DURATION + GAS_MEAS_DURATION + WAKEUP_DURATION

-----------------------------------------------------------------------------
(* C31 *)

\* the last frame the running call read
LastFrameRead == FramesRead(log)[Len(FramesRead(log))].v

\* C31: in every measurement measure returns, the temperature, the pressure and
\* the humidity are decoded from the one frame read last, and the t_fine the
\* pressure and the humidity conversions are handed is the one the temperature
\* conversion produced from that frame.
C31_OneFrameOneTFine ==
    (op = "measure" /\ pc = "idle" /\ result.kind = "Ok") =>
        LET frame == LastFrameRead
            adc_temp == frame[6] * 4096 + frame[7] * 16 + frame[8] \div 16
            adc_press == frame[3] * 4096 + frame[4] * 16 + frame[5] \div 16
            adc_hum == frame[9] * 256 + frame[10]
            t_fine == calculate_temperature(adc_temp, calibration_data)
        IN  /\ log[Len(log)] = Event("R", ADDR_SENSOR_RESULT, frame)
            /\ result.data.frame = frame
            /\ result.data.temperature = t_fine
            /\ result.data.pressure = [adc_press |-> adc_press, t_fine |-> t_fine]
            /\ result.data.humidity = calculate_humidity(adc_hum, calibration_data, t_fine)

\* a measurement from the second frame read, whose temperature is not that of
\* the first: 69.5 degrees and 45.8 percent
C31_Witness ==
    /\ op = "measure"
    /\ pc = "idle"
    /\ result.kind = "Ok"
    /\ Len(FramesRead(log)) = 2
    /\ FramesRead(log)[1].v[6] = 117
    /\ result.data.frame = MakeFrame(128, 0, 211)
    /\ result.data.pressure.t_fine = 356057
    /\ result.data.humidity = 187542

-----------------------------------------------------------------------------
(* I2CHelper::get_calibration_data on its own: the coefficient memory of the
   device is drawn at the start, and the three reads fill the buffer that
   extract_calibration_data is handed. *)

\* coefficient memories that differ in the bytes 23, 24 and 25, which hold
\* par_h2 and par_h1: each takes values that show both nibbles of a byte set,
\* clear and mixed
CoefficientMemories ==
    {[CALIBRATION_DATA EXCEPT ![24] = b23, ![25] = b24, ![26] = b25] :
        b23 \in {0, 15, 90, 240, 255}, b24 \in {0, 15, 90, 240, 255},
        b25 \in {0, 15, 90, 240, 255}}

CalibrationInit ==
    /\ drv \in {"sync", "async"}
    /\ seed \in Seeds
    /\ target_endian = "little"
    /\ pc = "coeff1"
    /\ op = IF drv = "sync" THEN "new" ELSE "initialize"
    /\ mode = "Sleep"
    /\ conf = ConfigurationDefault
    /\ control_register = 0
    /\ current_conf = ResetConfig
    /\ coeff_buffer = [k \in 1..LEN_COEFF_ALL |-> 0]
    /\ cal_pending = NoCalibration
    /\ idx = 0
    /\ attempt = 0
    /\ delay_period = 0
    /\ initialized = FALSE
    /\ calibration_data = NoCalibration
    /\ sensor_config = ResetConfig
    /\ current_sensor_config = AllNoneConfiguration
    /\ variant = "GasLow"
    /\ ambient_temperature = seed
    /\ \E memory \in CoefficientMemories : dev = [ResetDevice EXCEPT !.coeff = memory]
    /\ log = << Event("W", ADDR_SOFT_RESET, <<CMD_SOFT_RESET>>),
                Event("D", 0, <<DELAY_PERIOD_US>>),
                Event("R", ADDR_CHIP_ID, <<CHIP_ID>>) >>
    /\ dropped = FALSE
    /\ result = Res("running")
    /\ history = NoHistory
    /\ calls = 1

CalibrationSpec == CalibrationInit /\ [][GetCoeff1 \/ GetCoeff2 \/ GetCoeff3]_vars

-----------------------------------------------------------------------------
(* C32 *)

\* the transactions of get_calibration_data: the log after those of init
CoefficientReads == SubSeq(log, 4, Len(log))

\* C32: get_calibration_data issues exactly three reads, at ADDR_REG_COEFF1,
\* ADDR_REG_COEFF2 and ADDR_REG_COEFF3 in this order, which fill the buffer
\* ranges [0, 23), [23, 37) and [37, 42); from that buffer par_h1 is
\* (b[25] << 4) | (b[24] & 0x0F) and par_h2 is (b[23] << 4) | (b[24] >> 4), so
\* both lie in 0..4095 and take different nibbles of byte 24.
C32_CalibrationReads ==
    LET reads == CoefficientReads
        b == [k \in 0..41 |-> coeff_buffer[k + 1]]
    IN  /\ Len(reads) <= 3
        /\ \A i \in 1..Len(reads) :
              /\ IsRead(reads[i])
              /\ reads[i].a = <<ADDR_REG_COEFF1, ADDR_REG_COEFF2, ADDR_REG_COEFF3>>[i]
              /\ reads[i].t = "R" => Len(reads[i].v) = <<23, 14, 5>>[i]
              /\ reads[i].t = "RX" => (i = Len(reads) /\ pc = "idle")
        /\ pc = "get_config" =>
              /\ Len(reads) = 3
              /\ coeff_buffer = reads[1].v \o reads[2].v \o reads[3].v
              /\ coeff_buffer = dev.coeff
              /\ cal_pending.par_h1 = b[25] * 16 + (b[24] % 16)
              /\ cal_pending.par_h2 = b[23] * 16 + (b[24] \div 16)
              /\ cal_pending.par_h1 \in 0..4095
              /\ cal_pending.par_h2 \in 0..4095

\* the three reads are done, byte 24 is 0x5A and the bytes 23 and 25 are 0xFF:
\* par_h1 ends in the nibble A and par_h2 in the nibble 5
C32_Witness ==
    /\ pc = "get_config"
    /\ Len(log) = 6
    /\ coeff_buffer[25] = 90
    /\ cal_pending.par_h1 = 255 * 16 + 10
    /\ cal_pending.par_h2 = 255 * 16 + 5

-----------------------------------------------------------------------------
(* C33 *)

\* the block set_config read in the running call
ConfigBlockRead ==
    LET reads == SelectSeq(log, LAMBDA e : e.t = "R" /\ e.a = ADDR_CONFIG)
    IN  reads[1].v

\* log[i] is set_config's write of the control register, config offset 3
SetConfigCtrlWrite(i) ==
    /\ IsWrite(log[i])
    /\ log[i].a = ADDR_CONFIG + 3
    /\ i > 1
    /\ IsWrite(log[i - 1])
    /\ log[i - 1].a = ADDR_CONFIG + 2

\* C33: bring-up and set_configuration never put the device into Forced mode:
\* the control-register byte set_config writes carries the mode bits that were
\* read from the device, which are Sleep after a reset and after the sleep
\* set_configuration forces; only set_mode(Forced), in wake_up and measure,
\* writes the mode bits 01.
C33_SetupNeverForces ==
    /\ [](\A i \in 1..Len(log) :
              /\ SetConfigCtrlWrite(i) =>
                    /\ ModeBits(log[i]) = ConfigBlockRead[4] % 4
                    /\ ModeBits(log[i]) = 0
              /\ IsCtrlWrite(log[i], 1) =>
                    /\ op \in {"wake_up", "measure"}
                    /\ mode = "Forced"
                    /\ i > 1
                    /\ IsCtrlRead(log[i - 1], 0))
    /\ [][(DeviceMode(dev') = 1 /\ DeviceMode(dev) # 1)
              => (op' \in {"wake_up", "measure"} /\ pc = "set_forced")]_vars

\* set_configuration found the device in forced mode, put it to sleep, and
\* set_config wrote the control register with the oversamplings of the default
\* configuration and the mode bits at Sleep
C33_Witness ==
    /\ op = "set_configuration"
    /\ pc = "idle"
    /\ result.kind = "Ok"
    /\ IsCtrlRead(log[1], 1)
    /\ \E i \in 1..Len(log) :
          SetConfigCtrlWrite(i) /\ log[i].v = <<2 * 32 + 5 * 4>>

-----------------------------------------------------------------------------
(* C34 *)

\* what a call hands back to its caller: Ok or a value of BmeError
TypedResults ==
    {"Ok", "WriteError", "WriteReadError", "UnexpectedChipId", "MeasuringTimeOut",
     "Uninitialized"}

\* C34: for every byte the device can return from the control register, the
\* mode bits 0b10 and 0b11 included, set_mode completes with Ok or with a
\* value of BmeError; it never aborts the caller.
C34_SetModeNeverAborts ==
    (/\ pc = "idle"
     /\ Len(log) > 0
     /\ log[Len(log)].t = "R"
     /\ log[Len(log)].a = ADDR_CONTROL_MODE)
        => result.kind \in TypedResults

-----------------------------------------------------------------------------
(* C35 *)

\* the device's registers other than the control register
OtherRegisters(d) ==
    <<d.config[1], d.config[2], d.config[3], d.config[5], d.gas_wait, d.res_heat>>

\* C35: measure writes to no register other than the control register: the
\* other configuration bytes and the heater registers are not written, and the
\* driver's calibration data, variant and stored configuration stay as they
\* were, whether the call succeeds or fails.
C35_MeasureWritesControlOnly ==
    /\ [](op = "measure" =>
              \A i \in 1..Len(log) : IsWrite(log[i]) => log[i].a = ADDR_CONTROL_MODE)
    /\ [][op' = "measure" =>
              /\ OtherRegisters(dev') = OtherRegisters(dev)
              /\ calibration_data' = calibration_data
              /\ variant' = variant
              /\ sensor_config' = sensor_config
              /\ current_sensor_config' = current_sensor_config
              /\ initialized' = initialized]_vars

\* a measure that found the device in forced mode, wrote Sleep and then Forced,
\* and failed at the read of the frame
C35_Witness ==
    /\ op = "measure"
    /\ pc = "idle"
    /\ result.kind = "WriteReadError"
    /\ IsCtrlRead(log[1], 1)
    /\ \E i \in 1..Len(log) : IsCtrlWrite(log[i], 0)
    /\ \E i \in 1..Len(log) : IsCtrlWrite(log[i], 1)
    /\ log[Len(log)].a = ADDR_SENSOR_RESULT

-----------------------------------------------------------------------------
(* C36 *)

\* the pressure, temperature and humidity oversampling bits of a raw block
OversamplingBits(raw) == <<(raw[4] \div 4) % 8, raw[4] \div 32, raw[2] % 8>>

\* C36: in the blocking driver, after successful calls of new,
\* set_configuration, wake_up, put_to_sleep and measure, the stored raw
\* configuration has the oversampling bits of the device's config registers:
\* they agree when new or set_configuration returns Ok, and no step of wake_up,
\* put_to_sleep or measure changes the stored block or the device's bits.
C36_StoredRawMatchesDevice ==
    /\ []((/\ drv = "sync"
           /\ op \in {"new", "set_configuration"}
           /\ pc = "idle"
           /\ result.kind = "Ok")
              => /\ initialized
                 /\ OversamplingBits(sensor_config) = OversamplingBits(dev.config))
    /\ [][(drv = "sync" /\ op' \in {"wake_up", "put_to_sleep", "measure"})
              => /\ sensor_config' = sensor_config
                 /\ OversamplingBits(dev'.config) = OversamplingBits(dev.config)]_vars

\* the second configuration leaves the humidity oversampling as the default
\* configuration of new set it: By4, By16 and By1 on the device and in the
\* stored block
C36_Witness ==
    /\ drv = "sync"
    /\ op = "set_configuration"
    /\ pc = "idle"
    /\ result.kind = "Ok"
    /\ conf.humidity_oversampling = "None"
    /\ OversamplingBits(sensor_config) = <<3, 5, 1>>
    /\ OversamplingBits(dev.config) = <<3, 5, 1>>

-----------------------------------------------------------------------------
(* C37 *)

\* the stored setting is the one in effect on the device; a stored None counts
\* as in effect where the device skips the conversion, which is how the delay
\* period counts it
StoredInEffect(stored, on_device) ==
    IF stored = "None" THEN on_device = "Skipped" ELSE stored = on_device

\* C37: in the deferred driver, whenever the driver is initialized and no call
\* is running, the oversampling settings of its stored current configuration
\* are the ones in effect on the device, after any sequence of initialize and
\* set_configuration calls, calls that fail part-way and configurations with
\* None fields included.
C37_StoredConfigurationInEffect ==
    (drv = "async" /\ initialized /\ pc = "idle") =>
        /\ StoredInEffect(current_sensor_config.temperature_oversampling,
                          RawConfig_temperature_oversampling(dev.config))
        /\ StoredInEffect(current_sensor_config.pressure_oversampling,
                          RawConfig_pressure_oversampling(dev.config))
        /\ StoredInEffect(current_sensor_config.humidity_oversampling,
                          RawConfig_humidity_oversampling(dev.config))

-----------------------------------------------------------------------------
(* C38 *)

TimedOut == op = "measure" /\ pc = "idle" /\ result.kind = "MeasuringTimeOut"

\* the events of the log that satisfy a test
Count(l, Test(_)) == Len(SelectSeq(l, Test))

IsWait(e) == e.t = "D"
IsForcedWrite(e) == IsCtrlWrite(e, 1)
IsSleepWrite(e) == IsCtrlWrite(e, 0)
IsFrameRead(e) == IsRead(e) /\ e.a = ADDR_SENSOR_RESULT

\* C38: a measure call that ends in MeasuringTimeOut has issued exactly one
\* Forced write, exactly 5 frame reads and exactly 6 waits (one before the
\* first read and one after each of the 5 frames that were not ready), and no
\* write that returns the device to Sleep.
C38_TimeOutTransactions ==
    (TimedOut /\ ~dropped) =>
        /\ Count(log, IsForcedWrite) = 1
        /\ Count(log, IsFrameRead) = 5
        /\ Count(log, IsWait) = 6
        /\ Count(log, IsSleepWrite) = 0

\* the last 12 events of a call that timed out
TimeOutTail == SubSeq(log, Len(log) - 11, Len(log))

\* C38, amended: a measure call that ends in MeasuringTimeOut has issued
\* exactly one Forced write and, after it, exactly 5 frame reads and exactly 6
\* waits (one before the first read and one after each of the 5 frames that
\* were not ready, the last of them after the final read) and no write; the
\* Sleep writes and settle waits of set_mode, for a device found in Forced
\* mode, come before the Forced write.
C38_TimeOutAfterForcedWrite ==
    TimedOut =>
        /\ Len(log) >= 12
        /\ IsForcedWrite(TimeOutTail[1])
        /\ Count(log, IsForcedWrite) = 1
        /\ \A k \in 1..5 :
              /\ TimeOutTail[2 * k] = Event("D", 0, TimeOutTail[2 * k].v)
              /\ TimeOutTail[2 * k + 1].t = "R"
              /\ TimeOutTail[2 * k + 1].a = ADDR_SENSOR_RESULT
              /\ ~FrameReady(TimeOutTail[2 * k + 1].v)
        /\ IsWait(TimeOutTail[12])
        /\ Count(TimeOutTail, IsFrameRead) = 5
        /\ Count(TimeOutTail, IsWait) = 6
        /\ Count(TimeOutTail, IsWrite) = 1
        /\ \A i \in 1..Len(log) :
              (IsSleepWrite(log[i]) \/ (IsWait(log[i]) /\ i < Len(log) - 11))
                  => /\ i < Len(log) - 11
                     /\ IsCtrlRead(log[1], 1) \/ dropped

\* a measure that found the device in Forced mode, put it to sleep with one
\* Sleep write and one settle wait, and timed out: 7 waits in all
C38_Witness ==
    /\ TimedOut
    /\ ~dropped
    /\ Len(log) = 16
    /\ IsCtrlRead(log[1], 1)
    /\ IsSleepWrite(log[2])
    /\ Count(log, IsWait) = 7

-----------------------------------------------------------------------------
(* The divisions of the heater and gas formulas on their own.  Either the
   coefficient buffer is drawn at the start, with the bytes 37 and 39 that
   hold res_heat_val and res_heat_range, and set_gas_config's res_heat_0 write
   of a bring-up computes calc_res_heat from its extraction; or a result frame
   of a BME688 is drawn, with its gas ADC value and gas range, and one step
   computes the gas resistance. *)

HeaterGasInit ==
    /\ drv = "sync"
    /\ seed \in Seeds
    /\ target_endian = "little"
    /\ op = "new"
    /\ mode = "Sleep"
    /\ conf = ConfigurationDefault
    /\ control_register = 0
    /\ current_conf = apply_config(ResetConfig, conf)
    /\ idx = LEN_CONFIG
    /\ attempt = 0
    /\ delay_period = 0
    /\ initialized = FALSE
    /\ calibration_data = NoCalibration
    /\ sensor_config = ResetConfig
    /\ current_sensor_config = AllNoneConfiguration
    /\ variant = "GasHigh"
    /\ ambient_temperature = seed
    /\ dev = ResetDevice
    /\ log = <<>>
    /\ dropped = FALSE
    /\ history = NoHistory
    /\ calls = 1
    /\ \/ /\ pc = "set_res_heat"
          /\ \E b37 \in 0..255, b39 \in {0, 16, 32, 48, 207, 223, 239, 255} :
                coeff_buffer = [CALIBRATION_DATA EXCEPT ![38] = b37, ![40] = b39]
          /\ cal_pending = extract_calibration_data(coeff_buffer)
          /\ result = Res("running")
       \/ /\ pc = "calc_gas_resistance"
          /\ coeff_buffer = CALIBRATION_DATA
          /\ cal_pending = extract_calibration_data(coeff_buffer)
          /\ \E adc_gas \in 0..1023, gas_range \in 0..15 :
                result = [Res("running") EXCEPT
                             !.data.frame =
                                 [MakeFrame(128, 117, 0) EXCEPT
                                     ![14] = adc_gas \div 4,
                                     ![15] = (adc_gas % 4) * 64 + 48 + gas_range]]

\* variant.calc_gas_resistance(raw_data.gas_adc().0, .., raw_data.gas_range()) of
\* a frame with gas_valid and without gas_measuring
CalcGasResistance ==
    /\ pc = "calc_gas_resistance"
    /\ RawData_gas_valid(result.data.frame)
    /\ ~RawData_gas_measuring(result.data.frame)
    /\ result' = [result EXCEPT
                     !.data.gas_resistance =
                         calc_gas_resistance_GasHigh(RawData_gas_adc(result.data.frame),
                                                     RawData_gas_range(result.data.frame))]
    /\ pc' = "gas_resistance"
    /\ UNCHANGED <<fixed, op, locals, driver, dev, log, dropped, history, calls>>

HeaterGasSpec == HeaterGasInit /\ [][SetResHeat \/ CalcGasResistance]_vars

-----------------------------------------------------------------------------
(* C39 *)

\* C39: no division by zero occurs in the integer heater and gas formulas: for
\* every calibration set that extract_calibration_data produces, calc_res_heat
\* divides by res_heat_range + 4, which is in 4..7, and by
\* 131 * res_heat_val + 65536, which is positive; and for every 10-bit gas ADC
\* value and 4-bit gas range the GasHigh divisor (adc - 512) * 3 + 4096 is
\* positive and 262144 >> gas_range is at least 8.
C39_NoDivisionByZero ==
    /\ pc \in {"set_res_heat", "get_variant"} =>
          /\ cal_pending = extract_calibration_data(coeff_buffer)
          /\ cal_pending.res_heat_val = AsI8(coeff_buffer[38])
          /\ cal_pending.res_heat_range + 4 \in 4..7
          /\ 131 * cal_pending.res_heat_val + 65536 > 0
          /\ pc = "get_variant" =>
                /\ log[1].a = ADDR_RES_HEAT_0
                /\ log[1].v[1] \in 0..255
                /\ log[1].v[1] = calc_res_heat(conf.gas_config, cal_pending,
                                               ambient_temperature)
    /\ pc \in {"calc_gas_resistance", "gas_resistance"} =>
          LET frame == result.data.frame
              adc == frame[14] * 4 + frame[15] \div 64
              range == frame[15] % 16
          IN  /\ adc = RawData_gas_adc(frame)
              /\ range = RawData_gas_range(frame)
              /\ (adc - 512) * 3 + 4096 > 0
              /\ 262144 \div (2 ^ range) >= 8
              /\ pc = "gas_resistance" =>
                    /\ result.data.gas_resistance =
                           calc_gas_resistance_GasHigh(adc, range)
                    /\ result.data.gas_resistance \in 1421..102400000

\* the smallest divisors: res_heat_val -128 with res_heat_range 3 has been
\* through calc_res_heat
C39_Witness ==
    /\ pc = "get_variant"
    /\ result.kind = "running"
    /\ cal_pending.res_heat_val = -128
    /\ cal_pending.res_heat_range = 3
    /\ coeff_buffer[40] = 255
    /\ dev.res_heat = log[1].v[1]

====
